---- MODULE Spec2Model ----
(***************************************************************************)
(* Sonos subnet discovery: the polling coordinator                         *)
(* (custom_components/sonos_subnet/coordinator.py), the protocol client    *)
(* (helpers.py) and the zone-group resolution, as state machines.          *)
(*                                                                         *)
(* The coordinator runs on one asyncio loop: code between two awaits is    *)
(* one atomic action.  A poll cycle is CycleStart (tasks are built from    *)
(* the tracked list), one PollDevice per task (the awaited gather) and     *)
(* CycleComplete (the merge loop after the gather).  Track, Untrack and    *)
(* SetVolume are handlers of other coroutines and may run between any two  *)
(* of these steps.                                                         *)
(***************************************************************************)
EXTENDS Integers, Sequences, FiniteSets, TLC

\* ------------------------------------------------------------- bounds
NumIps == 2

IPs == 1..NumIps

\* Volume levels int(volume * 100) the model distinguishes: the ends of the
\* range 0..100.
Volumes == {0, 100}

\* ------------------------------------------------- sub-queries and keys
SubQueries ==
  {"transport", "position", "volume", "eq", "device_settings", "zone_group"}

\* The SOAP commands each sub-query sends, named by the snapshot key the
\* command's answer is stored under.
CommandsOf(q) ==
  CASE q = "transport"       -> {"transport_state", "shuffle", "crossfade"}
    [] q = "position"        -> {"track_uri"}
    [] q = "volume"          -> {"volume", "mute"}
    [] q = "eq"              -> {"bass", "treble", "loudness", "night_mode",
                                 "speech_enhancement"}
    [] q = "device_settings" -> {"status_light", "touch_controls"}
    [] q = "zone_group"      -> {"group_members"}

Commands == UNION {CommandsOf(q) : q \in SubQueries}

\* Keys of the descriptor dict built by get_speaker_info.
DescriptorKeys == {"ip_address", "uuid"}

Range(s) == {s[i] : i \in 1..Len(s)}

Min(a, b) == IF a < b THEN a ELSE b

\* ------------------------------------------------------------ snapshots
\* A snapshot dict: the address it was fetched from, when it was fetched
\* ("track": by validate_sonos_ip for async_add_speaker; "cycle": by a poll
\* of the poll cycle started last; "old": by a poll of an earlier cycle;
\* "untracked": by a poll that returned before the address was last
\* untracked), the keys it holds, and the values the claims look at.
NullSnap ==
  [ip_address |-> 0, obs |-> "none", keys |-> {}, volume |-> 0,
   group |-> "none", available |-> FALSE]

\* get_speaker_info on a 200 answer: a fresh dict with the descriptor keys.
SpeakerInfo(ip, now) ==
  [NullSnap EXCEPT !.ip_address = ip, !.obs = now, !.keys = DescriptorKeys]

\* _get_zone_group_info: the default unless the command succeeded and the
\* snapshot map held at that moment has an entry for ip with a uuid.
ZoneGroupOf(ip, ok, spk) ==
  IF "group_members" \in ok /\ ip \in DOMAIN spk /\ "uuid" \in spk[ip].keys
  THEN "resolved" ELSE "default"

\* Mutant of MergeParts: a sub-query contributes its keys only when every
\* one of its commands was answered.
MergePartsWholeQueries(info, ok, vol, spk) ==
  [info EXCEPT
     !.keys   = @ \cup UNION {CommandsOf(q) : q \in
                                {x \in SubQueries : CommandsOf(x) \subseteq ok}}
                  \cup {"group_members"},
     !.volume = IF "volume" \in ok THEN vol ELSE 0,
     !.group  = ZoneGroupOf(info.ip_address, ok, spk)]

\* The six partial results merged into the descriptor dict
\* (speaker_info.update(result) for every result that is a dict).  ok is
\* the set of commands the device answered with HTTP 200.
MergeParts(info, ok, vol, spk) ==
  [info EXCEPT
     !.keys   = @ \cup (ok \ {"group_members"}) \cup {"group_members"},
     !.volume = IF "volume" \in ok THEN vol ELSE 0,
     !.group  = ZoneGroupOf(info.ip_address, ok, spk)]

\* Mutant of UpdateSpeaker: a transport query that fails makes the poll of
\* the device fail.
UpdateSpeakerTransportFatal(ip, desc, ok, vol, spk, now) ==
  IF desc = "exc" THEN [kind |-> "exc", snap |-> NullSnap]
  ELSE IF desc = "none" \/ CommandsOf("transport") \cap ok = {}
  THEN [kind |-> "none", snap |-> NullSnap]
  ELSE [kind |-> "dict",
        snap |-> MergeParts(SpeakerInfo(ip, now), ok, vol, spk)]

\* _update_speaker: the result of one task of the gather.
\* desc is the outcome of the descriptor fetch: "ok", "none" (error caught
\* in get_speaker_info, or a non-200 answer) or "exc" (an exception that
\* get_speaker_info does not catch).
UpdateSpeaker(ip, desc, ok, vol, spk, now) ==
  IF desc = "exc" THEN [kind |-> "exc", snap |-> NullSnap]
  ELSE IF desc = "none" THEN [kind |-> "none", snap |-> NullSnap]
  ELSE [kind |-> "dict",
        snap |-> MergeParts(SpeakerInfo(ip, now), ok, vol, spk)]

\* A task of the gather: what the network did (desc, ok: the outcome of
\* the descriptor fetch and the commands that were answered) and the
\* result the task returned.
Task(ip, desc, ok, vol, spk, now) ==
  [desc |-> desc, ok |-> ok,
   kind |-> UpdateSpeaker(ip, desc, ok, vol, spk, now).kind,
   snap |-> UpdateSpeaker(ip, desc, ok, vol, spk, now).snap]

Pending == [desc |-> "pending", ok |-> {}, kind |-> "pending", snap |-> NullSnap]

\* dict item assignment d[ip] = v
Put(d, ip, v) == [i \in DOMAIN d \cup {ip} |-> IF i = ip THEN v ELSE d[i]]

\* Mutant of Pop: the entry stays.
PopNothing(d, ip) == d

\* dict.pop(ip, None)
Pop(d, ip) == [i \in DOMAIN d \ {ip} |-> d[i]]

EmptyMap == [i \in {} |-> NullSnap]

\* asyncio.gather(*tasks, return_exceptions=True)
ReturnExceptions == TRUE

\* The gather raises out of _async_update_data exactly when a task raised
\* and exceptions are not returned as results.
GatherRaises(results) ==
  /\ ~ReturnExceptions
  /\ \E i \in 1..Len(results) : results[i].kind = "exc"

\* One iteration of the merge loop: for ip, result in zip(ips, results).
MergeOne(acc, ip, r, old) ==
  IF r.kind = "dict"
  THEN Put(acc, ip, [r.snap EXCEPT !.available = TRUE,
                                   !.keys = @ \cup {"available"}])
  ELSE IF ip \in DOMAIN old
  THEN Put(acc, ip, [old[ip] EXCEPT !.available = FALSE,
                                    !.keys = @ \cup {"available"}])
  ELSE acc

RECURSIVE MergeFrom(_, _, _, _, _)
MergeFrom(i, ips, results, old, acc) ==
  IF i > Min(Len(ips), Len(results)) THEN acc
  ELSE MergeFrom(i + 1, ips, results, old,
                 MergeOne(acc, ips[i], results[i], old))

\* The merge loop of _async_update_data over the tracked list as it is when
\* the gather returns.
Merge(ips, results, old) == MergeFrom(1, ips, results, old, EmptyMap)

\* list.remove(ip): the first occurrence.
RECURSIVE Remove(_, _)
Remove(s, ip) ==
  IF s = <<>> THEN <<>>
  ELSE IF Head(s) = ip THEN Tail(s)
  ELSE <<Head(s)>> \o Remove(Tail(s), ip)

\* ---------------------------------------------------------------- state
VARIABLES
  speaker_ips,   \* self._speaker_ips
  speakers,      \* self._speakers: address -> snapshot dict
  data,          \* coordinator.data: "None", "Alias" (the dict object that
                 \* is self._speakers) or "Empty" (the fresh {} of a cycle
                 \* over no address)
  entities,      \* addresses that have a media player entity
  cycle,         \* the poll cycle in flight, or the last one
  raised,        \* the last cycle ended in UpdateFailed
  send,          \* the send_upnp_command call under observation
  zone,          \* the _get_zone_group_info call under observation
  call,          \* the entity or service call (a mutation, a join) under
                 \* observation
  scan           \* the descriptor fetch or subnet scan under observation

vars ==
  <<speaker_ips, speakers, data, entities, cycle, raised, send, zone, call,
    scan>>

\* No protocol-client call and no group resolution is under observation.
SendIdle == [pc |-> "idle"]

ZoneIdle == [pc |-> "idle"]

CallIdle == [pc |-> "idle"]

ScanIdle == [pc |-> "idle"]

IdleCycle == [pc |-> "idle", tasks |-> <<>>, results |-> <<>>]

\* The cycle record once _async_update_data has returned: its locals are
\* gone.
DoneCycle == [IdleCycle EXCEPT !.pc = "done"]

\* Initial configurations: entry.data[CONF_SPEAKER_IPS], duplicate free.
InitialConfigs == {[i \in 1..n |-> i] : n \in 0..NumIps}

\* A new cycle starts: what the last cycle fetched is no longer of the
\* cycle started last.
Age(spk) ==
  [i \in DOMAIN spk |->
     IF spk[i].obs = "cycle" THEN [spk[i] EXCEPT !.obs = "old"] ELSE spk[i]]

Init ==
  /\ speaker_ips \in InitialConfigs
  /\ speakers = EmptyMap
  /\ data = "None"
  /\ entities = {}
  /\ cycle = IdleCycle
  /\ raised = FALSE
  /\ send = SendIdle
  /\ zone = ZoneIdle
  /\ call = CallIdle
  /\ scan = ScanIdle

\* Outcomes of the commands of one device poll that the coordinator
\* specification draws from: every command answered, only the transport
\* queries timed out.
CommandOutcomes == {Commands, Commands \ CommandsOf("transport")}

DescriptorOutcomes == {"ok", "none", "exc"}

\* What a device answers to GetVolume in the coordinator specification.
PolledVolumes == {0}

\* _async_update_data up to the gather, over a non-empty tracked list.
CycleStart ==
  /\ cycle.pc # "polling"
  /\ speaker_ips # <<>>
  /\ speakers' = Age(speakers)
  /\ cycle' = [pc |-> "polling", tasks |-> speaker_ips,
               results |-> [i \in 1..Len(speaker_ips) |-> Pending]]
  /\ UNCHANGED <<speaker_ips, data, entities, raised, send, zone, call, scan>>

\* _async_update_data over an empty tracked list: returns a fresh {} and
\* leaves self._speakers alone.
CycleEmpty ==
  /\ cycle.pc # "polling"
  /\ speaker_ips = <<>>
  /\ cycle' = DoneCycle
  /\ data' = "Empty"
  /\ raised' = FALSE
  /\ speakers' = Age(speakers)
  /\ entities' = entities \cup DOMAIN speakers
  /\ UNCHANGED <<speaker_ips, send, zone, call, scan>>

\* One task of the gather runs to its end; outcomes and volumes are what
\* the device may answer to the commands and to GetVolume.
PollWith(i, outcomes, volumes) ==
  /\ cycle.pc = "polling"
  /\ i \in 1..Len(cycle.tasks)
  /\ cycle.results[i].kind = "pending"
  /\ \E desc \in DescriptorOutcomes, ok \in outcomes \cup {{}},
        vol \in volumes :
       /\ desc = "ok" => ok \in outcomes
       /\ desc # "ok" => ok = {}
       /\ cycle' = [cycle EXCEPT
            !.results[i] =
               Task(cycle.tasks[i], desc, ok, vol, speakers, "cycle")]
  /\ UNCHANGED <<speaker_ips, speakers, data, entities, raised, send, zone, call, scan>>

PollDevice(i) == PollWith(i, CommandOutcomes, PolledVolumes)

\* The gather has returned: the merge loop, self._speakers = speakers_data,
\* return; the framework stores the returned dict as coordinator.data and
\* calls the listeners (async_add_new_speakers of the platforms).
CycleComplete ==
  /\ cycle.pc = "polling"
  /\ \A i \in 1..Len(cycle.results) : cycle.results[i].kind # "pending"
  /\ IF GatherRaises(cycle.results)
     THEN /\ raised' = TRUE
          /\ UNCHANGED <<speakers, data, entities>>
     ELSE /\ raised' = FALSE
          /\ speakers' = Merge(speaker_ips, cycle.results, speakers)
          /\ data' = "Alias"
          /\ entities' = entities \cup DOMAIN speakers'
  /\ cycle' = DoneCycle
  /\ UNCHANGED <<speaker_ips, send, zone, call, scan>>

\* The entry is set up: the first refresh has returned, the coordinator is
\* published and the services and platforms are registered.
SetUp == data # "None"

\* async_add_speaker(ip, speaker_info) up to its await; speaker_info is the
\* dict validate_sonos_ip has just fetched.
Track(ip) ==
  /\ SetUp
  /\ ip \notin Range(speaker_ips)
  /\ speaker_ips' = Append(speaker_ips, ip)
  /\ speakers' = Put(speakers, ip, SpeakerInfo(ip, "track"))
  /\ UNCHANGED <<data, entities, cycle, raised, send, zone, call, scan>>

\* The address is untracked now: what the tasks of the cycle in flight have
\* already fetched from it was observed before this untrack.
Outdate(c, ip) ==
  [c EXCEPT !.results =
     [i \in 1..Len(c.results) |->
        IF c.tasks[i] = ip /\ c.results[i].kind = "dict"
        THEN [c.results[i] EXCEPT !.snap.obs = "untracked"]
        ELSE c.results[i]]]

\* async_remove_speaker(ip)
Untrack(ip) ==
  /\ SetUp
  /\ ip \in Range(speaker_ips)
  /\ speaker_ips' = Remove(speaker_ips, ip)
  /\ speakers' = Pop(speakers, ip)
  /\ cycle' = Outdate(cycle, ip)
  /\ UNCHANGED <<data, entities, raised, send, zone, call, scan>>

\* coordinator.data is truthy and has the address.
InData(ip) == data = "Alias" /\ ip \in DOMAIN speakers

\* async_set_volume_level after the device accepted the volume (when the
\* SoCo call raises the handler returns and nothing changes).
SetVolume(ip, v) ==
  /\ ip \in entities
  /\ InData(ip)
  /\ speakers' = [speakers EXCEPT ![ip] =
                    [@ EXCEPT !.volume = v, !.keys = @ \cup {"volume"}]]
  /\ speakers' # speakers
  /\ UNCHANGED <<speaker_ips, data, entities, cycle, raised, send, zone, call, scan>>

Next ==
  \/ CycleStart
  \/ CycleEmpty
  \/ \E i \in 1..NumIps : PollDevice(i)
  \/ CycleComplete
  \/ \E ip \in IPs : Track(ip)
  \/ \E ip \in IPs : Untrack(ip)
  \/ \E ip \in IPs, v \in Volumes : SetVolume(ip, v)

Spec == Init /\ [][Next]_vars

\* ------------------------------------------------ shorthands of the claims
\* The step in which the cycle in flight runs its merge and returns.
MergeStep == cycle.pc = "polling" /\ cycle'.pc = "done"

Tracked(ip) == ip \in Range(speaker_ips)

HasSnapshot(ip) == ip \in DOMAIN speakers

\* A poll result as the merge stores it on success.
Stored(snap) ==
  [snap EXCEPT !.available = TRUE, !.keys = @ \cup {"available"}]

\* A snapshot as the merge keeps it on failure.
Retained(snap) ==
  [snap EXCEPT !.available = FALSE, !.keys = @ \cup {"available"}]

\* The position of a tracked address in the task list of the cycle in
\* flight (0: the cycle does not poll it).
TaskOf(ip) ==
  IF \E i \in 1..Len(cycle.tasks) : cycle.tasks[i] = ip
  THEN CHOOSE i \in 1..Len(cycle.tasks) : cycle.tasks[i] = ip
  ELSE 0

PollSucceeded(ip) ==
  TaskOf(ip) # 0 /\ cycle.results[TaskOf(ip)].kind = "dict"

PollFailed(ip) ==
  TaskOf(ip) # 0 /\ cycle.results[TaskOf(ip)].kind \in {"none", "exc"}

\* C1: in every poll cycle, whatever subset of the polls fails, the cycle
\* completes without raising and every address whose own poll succeeded (and
\* that is still tracked) gets the snapshot of its own poll, available.
C1_EveryAddressGetsItsOwnPoll ==
  [][MergeStep =>
       /\ raised' = FALSE
       /\ \A ip \in IPs :
            (Tracked(ip) /\ PollSucceeded(ip)) =>
              /\ ip \in DOMAIN speakers'
              /\ speakers'[ip] = Stored(cycle.results[TaskOf(ip)].snap)]_vars

\* C2: when the poll of a tracked address fails and it had a snapshot, the
\* snapshot after the cycle is the one before it with available false; when
\* the poll succeeds the snapshot holds only what that poll fetched.  (The
\* snapshot before the cycle is read here as the one the merge finds.)
C2_FailureKeepsSuccessReplaces ==
  [][MergeStep =>
       \A ip \in IPs :
         /\ (Tracked(ip) /\ PollFailed(ip) /\ HasSnapshot(ip)) =>
              /\ ip \in DOMAIN speakers'
              /\ speakers'[ip] = Retained(speakers[ip])
         /\ (Tracked(ip) /\ PollSucceeded(ip)) =>
              /\ ip \in DOMAIN speakers'
              /\ speakers'[ip] = Stored(cycle.results[TaskOf(ip)].snap)]_vars

\* C4: without an untrack of A, an address that is tracked and has a
\* snapshot keeps being tracked and keeps a snapshot.
C4_SnapshotNeverDropped ==
  [][\A ip \in IPs :
       (Tracked(ip) /\ HasSnapshot(ip) /\ ~Untrack(ip)) =>
         (ip \in Range(speaker_ips') /\ ip \in DOMAIN speakers')]_vars

\* The task at position i polled an address that is at position i of the
\* tracked list when the merge runs.
InPlace(i) == i <= Len(speaker_ips) /\ speaker_ips[i] = cycle.tasks[i]

\* The network outcome of task i: the descriptor was fetched and only the
\* transport queries failed.
TransportTimedOut(i) ==
  /\ cycle.results[i].desc = "ok"
  /\ cycle.results[i].ok = Commands \ CommandsOf("transport")

FullyAnswered(i) ==
  cycle.results[i].desc = "ok" /\ cycle.results[i].ok = Commands

C5_UntrackRemovesTrackStartsFresh ==
  \A ip \in IPs :
    /\ ~Tracked(ip) => ~HasSnapshot(ip)
    /\ (HasSnapshot(ip) /\ speakers[ip].ip_address = ip) =>
         speakers[ip].obs # "untracked"

\* The state of an address in the state machine of the coordinator.
StateOf(ips, spk, ip) ==
  IF ip \notin Range(ips) THEN "Removed"
  ELSE IF ip \notin DOMAIN spk \/ "available" \notin spk[ip].keys
  THEN "Unknown"
  ELSE IF spk[ip].available THEN "Available" ELSE "Unavailable"

\* C6: an address becomes Available or Unavailable only when a cycle
\* completes, the new state is the outcome of its own poll in that cycle,
\* and Unavailable is entered from Available only.
C6_StateMachine ==
  [][\A ip \in IPs :
       LET s == StateOf(speaker_ips, speakers, ip)
           t == StateOf(speaker_ips', speakers', ip)
       IN  (s # t /\ t \in {"Available", "Unavailable"}) =>
             /\ MergeStep
             /\ t = "Available" => PollSucceeded(ip)
             /\ t = "Unavailable" => (PollFailed(ip) /\ s = "Available")]_vars

\* C7: while a snapshot is flagged unavailable no step changes what it
\* holds.
C7_UnavailableSnapshotIsFrozen ==
  [][\A ip \in IPs :
       ( /\ HasSnapshot(ip) /\ ip \in DOMAIN speakers'
         /\ StateOf(speaker_ips, speakers, ip) = "Unavailable"
         /\ StateOf(speaker_ips', speakers', ip) = "Unavailable" ) =>
       speakers'[ip] = speakers[ip]]_vars

\* ------------------------------------------- one device poll, any outcome
\* The poll of one device with every subset of its commands answered.  The
\* cycle polls address 1: in the first refresh of an entry configured with
\* it, or in the refresh after it was tracked into an empty entry.
InitPoll ==
  /\ speaker_ips = <<1>>
  /\ \/ speakers = EmptyMap /\ data = "None"
     \/ speakers = Put(EmptyMap, 1, SpeakerInfo(1, "track")) /\ data = "Empty"
  /\ entities = {}
  /\ cycle = [pc |-> "polling", tasks |-> <<1>>, results |-> <<Pending>>]
  /\ raised = FALSE
  /\ send = SendIdle
  /\ zone = ZoneIdle
  /\ call = CallIdle
  /\ scan = ScanIdle

PollAnswered(i) == PollWith(i, SUBSET Commands, Volumes)

NextPoll ==
  \/ \E i \in 1..NumIps : PollAnswered(i)
  \/ CycleComplete

SpecPoll == InitPoll /\ [][NextPoll]_vars

\* The step in which task i returns.
Returns(i) ==
  /\ i \in 1..Len(cycle.results)
  /\ cycle.results[i].kind = "pending"
  /\ cycle'.pc = "polling"
  /\ cycle'.results[i].kind # "pending"

\* A sub-query failed: none of its commands was answered; it succeeded:
\* all of them were.
Failed(q, ok) == CommandsOf(q) \cap ok = {}

Succeeded(q, ok) == CommandsOf(q) \subseteq ok

\* C8 as stated: with the descriptor fetched, the poll returns a snapshot
\* whatever sub-queries fail, the fields of every failed sub-query are absent
\* and the fields of every succeeded one are present.
C8_Original ==
  [][\A i \in 1..NumIps :
       (Returns(i) /\ cycle'.results[i].desc = "ok") =>
         LET r == cycle'.results[i]
         IN  /\ r.kind = "dict"
             /\ \A q \in SubQueries :
                  /\ Failed(q, r.ok) => CommandsOf(q) \cap r.snap.keys = {}
                  /\ Succeeded(q, r.ok) => CommandsOf(q) \subseteq r.snap.keys]_vars

\* C8 (amended): with the descriptor fetched, the poll returns a snapshot
\* whatever commands fail; for the five sub-queries other than topology the
\* field of a command is in the snapshot exactly when the command was
\* answered (and the volume is the one answered); the group fields are always
\* in the snapshot, with the default group when the topology query failed.
C8_FailedSubQueriesLeaveNoFields ==
  [][\A i \in 1..NumIps :
       (Returns(i) /\ cycle'.results[i].desc = "ok") =>
         LET r == cycle'.results[i]
         IN  /\ r.kind = "dict"
             /\ DescriptorKeys \subseteq r.snap.keys
             /\ \A q \in SubQueries \ {"zone_group"} :
                  \A c \in CommandsOf(q) : c \in r.snap.keys <=> c \in r.ok
             /\ CommandsOf("zone_group") \subseteq r.snap.keys
             /\ Failed("zone_group", r.ok) => r.snap.group = "default"
             /\ "volume" \in r.ok => r.snap.volume \in Volumes]_vars

\* C8 witness: a poll has returned a snapshot although the EQ, device
\* settings and topology sub-queries failed wholly and the volume sub-query
\* failed in part: the snapshot has the volume answered, no mute, no EQ or
\* settings field, and the group fields.
C8_Witness ==
  /\ cycle.pc = "polling"
  /\ cycle.results[1].kind = "dict"
  /\ cycle.results[1].ok =
       CommandsOf("transport") \cup CommandsOf("position") \cup {"volume"}
  /\ cycle.results[1].snap.volume = 100
  /\ cycle.results[1].snap.keys \cap Commands =
       cycle.results[1].ok \cup {"group_members"}
  /\ cycle.results[1].snap.group = "default"

\* ------------------------------------------------- the protocol client
\* send_upnp_command(ip, service, action, arguments, control_url): the POST
\* is awaited, then the body of the response is read, then the status is
\* looked at.  Either await may end in an exception.

\* HTTP statuses a device answers with.
Statuses == {200, 204, 401, 404, 500}

\* Texts of a response body.
ResponseTexts == {"", "<s:Envelope>"}

\* Exceptions an await of the call may end in: "ClientError" stands for
\* aiohttp.ClientError and its subclasses, "TimeoutError" for
\* asyncio.TimeoutError, "Exception" for any other subclass of Exception.
Exceptions == {"ClientError", "TimeoutError", "Exception"}

\* str(err) of an exception.
ErrorTexts == {"", "refused"}

\* The calls the integration makes, by the key their answer is stored under.
SendCall(ip, action) ==
  [pc |-> "post", ip |-> ip, action |-> action, status |-> 0,
   exc |-> "none", result |-> <<>>]

InitSend ==
  /\ speaker_ips = <<>>
  /\ speakers = EmptyMap
  /\ data = "None"
  /\ entities = {}
  /\ cycle = IdleCycle
  /\ raised = FALSE
  /\ send \in {SendCall(ip, action) : ip \in IPs, action \in Commands}
  /\ zone = ZoneIdle
  /\ call = CallIdle
  /\ scan = ScanIdle

\* Mutant of StatusOk: every 2xx status counts as success.
StatusOkAny2xx(status) == status \in 200..299

\* if response.status == 200
StatusOk(status) == status = 200

\* The except clauses of send_upnp_command, in order; <<>> stands for an
\* exception that no clause catches.
Handle(exc, text) ==
  IF exc = "ClientError" THEN <<FALSE, text>>
  ELSE IF exc = "TimeoutError" THEN <<FALSE, "Timeout">>
  ELSE IF exc = "Exception" THEN <<FALSE, text>>
  ELSE <<>>

\* The call ends in exception exc: it returns what the except clause
\* returns, or the exception leaves the function.
SendFails(exc, text) ==
  send' = [send EXCEPT
             !.pc = IF Handle(exc, text) = <<>> THEN "raised" ELSE "returned",
             !.exc = exc,
             !.result = Handle(exc, text)]

\* await session.post(...): the status line and headers arrive.
SendPosted ==
  /\ send.pc = "post"
  /\ \E status \in Statuses : send' = [send EXCEPT !.pc = "read",
                                                    !.status = status]
  /\ UNCHANGED <<speaker_ips, speakers, data, entities, cycle, raised, zone,
               call, scan>>

\* await session.post(...) ends in an exception.
SendPostFails ==
  /\ send.pc = "post"
  /\ \E exc \in Exceptions, text \in ErrorTexts : SendFails(exc, text)
  /\ UNCHANGED <<speaker_ips, speakers, data, entities, cycle, raised, zone,
               call, scan>>

\* response_text = await response.text() returns; the status decides.
SendRead ==
  /\ send.pc = "read"
  /\ \E text \in ResponseTexts :
       send' = [send EXCEPT !.pc = "returned",
                            !.result = <<StatusOk(send.status), text>>]
  /\ UNCHANGED <<speaker_ips, speakers, data, entities, cycle, raised, zone,
               call, scan>>

\* await response.text() ends in an exception (the connection breaks, the
\* total timeout runs out, the body does not decode).
SendReadFails ==
  /\ send.pc = "read"
  /\ \E exc \in Exceptions, text \in ErrorTexts : SendFails(exc, text)
  /\ UNCHANGED <<speaker_ips, speakers, data, entities, cycle, raised, zone,
               call, scan>>

NextSend == SendPosted \/ SendPostFails \/ SendRead \/ SendReadFails

SpecSend == InitSend /\ [][NextSend]_vars

\* C9: the call never ends in an exception of its caller; it returns
\* success exactly when the response arrived whole with status 200; with any
\* other status it returns false and the text of the response, after a
\* timeout false and "Timeout", after any other error false and the text of
\* the error.
C9_SuccessIffStatus200 ==
  /\ send.pc # "raised"
  /\ send.pc = "returned" =>
       /\ Len(send.result) = 2
       /\ send.result[1] \in BOOLEAN
       /\ send.result[1] <=> (send.exc = "none" /\ send.status = 200)
       /\ send.exc = "none" => send.result[2] \in ResponseTexts
       /\ send.exc = "TimeoutError" => send.result[2] = "Timeout"
       /\ send.exc \in {"ClientError", "Exception"} =>
            send.result[2] \in ErrorTexts

\* C9 witness: a call answered with a status of the 2xx class other than
\* 200 has returned false.
C9_Witness ==
  /\ send.pc = "returned"
  /\ send.exc = "none"
  /\ send.status = 204
  /\ send.result[1] = FALSE

\* ------------------------------------------------- zone-group resolution
\* _get_zone_group_info(ip) on the answer to GetZoneGroupState.  The
\* unescaped topology text is a sequence of tags; the function scans it with
\* the pattern <ZoneGroup([^>]*)>(.*?)</ZoneGroup>.

MaxGroups == 2

MaxMembers == 2

\* Identifiers of the devices of the household and the address each one is
\* reached at.
Uuids == {"X", "Y", "Z"}

AddressOf(u) == CASE u = "X" -> 1 [] u = "Y" -> 2 [] u = "Z" -> 3

\* Tags of the topology text.  <ZoneGroups> is the element around the group
\* blocks, <ZoneGroup Coordinator="u"> opens a block, </ZoneGroup> closes
\* it, <ZoneGroupMember UUID="u" Location="http://ip:1400/..."/> is a
\* member.
Tag(kind, uuid, ip) == [kind |-> kind, uuid |-> uuid, ip |-> ip]

GroupsOpen == Tag("<ZoneGroups>", "", 0)

GroupsClose == Tag("</ZoneGroups>", "", 0)

GroupOpen(coordinator) == Tag("<ZoneGroup>", coordinator, 0)

GroupClose == Tag("</ZoneGroup>", "", 0)

Member(u) == Tag("<ZoneGroupMember/>", u, AddressOf(u))

\* Member lists without repetition, in document order.
MemberLists ==
  {m \in UNION {[1..n -> Uuids] : n \in 1..MaxMembers} :
     \A i, j \in 1..Len(m) : i # j => m[i] # m[j]}

\* A group block of the topology: its coordinator and its members.
Groups == [coordinator : Uuids, members : MemberLists]

GroupLists == UNION {[1..n -> Groups] : n \in 1..MaxGroups}

\* The text of one group block.
BlockText(g) ==
  <<GroupOpen(g.coordinator)>>
  \o [i \in 1..Len(g.members) |-> Member(g.members[i])]
  \o <<GroupClose>>

RECURSIVE BlocksText(_)
BlocksText(groups) ==
  IF groups = <<>> THEN <<>>
  ELSE BlockText(Head(groups)) \o BlocksText(Tail(groups))

\* The topology text of a payload: the group blocks, inside the
\* <ZoneGroups> element when the payload is wrapped.
TopologyText(wrapped, groups) ==
  IF wrapped THEN <<GroupsOpen>> \o BlocksText(groups) \o <<GroupsClose>>
  ELSE BlocksText(groups)

\* <ZoneGroup([^>]*)> matches every opening tag whose name starts with
\* ZoneGroup.
OpensMatch(tag) ==
  tag.kind \in {"<ZoneGroups>", "<ZoneGroup>", "<ZoneGroupMember/>"}

\* re.findall(r'<ZoneGroup([^>]*)>(.*?)</ZoneGroup>', zone_state): from
\* position p, the leftmost opening tag that matches, up to the first
\* </ZoneGroup> after it; the scan goes on behind that tag.
RECURSIVE FindAll(_, _)
FindAll(text, p) ==
  IF p > Len(text) THEN <<>>
  ELSE LET ends == {j \in (p + 1)..Len(text) : text[j] = GroupClose}
       IN  IF ~OpensMatch(text[p]) \/ ends = {}
           THEN FindAll(text, p + 1)
           ELSE LET j == CHOOSE e \in ends : \A f \in ends : e <= f
                IN  <<[attrs |-> text[p],
                       content |-> SubSeq(text, p + 1, j - 1)]>>
                    \o FindAll(text, j + 1)

\* re.findall(member_pattern, group_content)
IsMember(tag) == tag.kind = "<ZoneGroupMember/>"

MembersOf(content) == SelectSeq(content, IsMember)

\* Mutant of DefaultGroup: the default does not flag the device as its own
\* coordinator.
DefaultGroupNotCoordinator == [group_members |-> <<>>, is_coordinator |-> FALSE]

\* data = {"group_members": [], "is_coordinator": True}
DefaultGroup == [group_members |-> <<>>, is_coordinator |-> TRUE]

\* The loop over the matches: a match whose attributes have no Coordinator
\* is skipped; the first block with a member of this uuid or this address
\* is the result.
RECURSIVE SelectBlock(_, _, _)
SelectBlock(blocks, uuid, ip) ==
  IF blocks = <<>> THEN DefaultGroup
  ELSE LET b == Head(blocks)
           members == MembersOf(b.content)
       IN  IF b.attrs.kind # "<ZoneGroup>"
           THEN SelectBlock(Tail(blocks), uuid, ip)
           ELSE IF \E i \in 1..Len(members) :
                     members[i].uuid = uuid \/ members[i].ip = ip
           THEN [group_members |->
                   [i \in 1..Len(members) |-> members[i].ip],
                 is_coordinator |-> b.attrs.uuid = uuid]
           ELSE SelectBlock(Tail(blocks), uuid, ip)

\* Mutant of GetZoneGroupInfo: the block of the device sets the coordinator
\* flag only; the member list stays the empty list of the default.
GetZoneGroupInfoFlagOnly(answer, wrapped, groups, uuid, ip) ==
  IF answer = "failed" \/ uuid = "" \/ answer = "no_state" THEN DefaultGroup
  ELSE [group_members |-> <<>>,
        is_coordinator |->
          SelectBlock(FindAll(TopologyText(wrapped, groups), 1),
                      uuid, ip).is_coordinator]

\* _get_zone_group_info: answer is "failed" (the command did not succeed),
\* "no_state" (no <ZoneGroupState> in the response) or "state"; uuid is the
\* uuid of the snapshot held for ip, "" when there is none.
GetZoneGroupInfo(answer, wrapped, groups, uuid, ip) ==
  IF answer = "failed" THEN DefaultGroup
  ELSE IF uuid = "" THEN DefaultGroup
  ELSE IF answer = "no_state" THEN DefaultGroup
  ELSE SelectBlock(FindAll(TopologyText(wrapped, groups), 1), uuid, ip)

ZoneCall(answer, wrapped, groups, uuid, ip) ==
  [pc |-> "called", answer |-> answer, wrapped |-> wrapped,
   groups |-> groups, uuid |-> uuid, ip |-> ip, result |-> DefaultGroup]

InitZone ==
  /\ speaker_ips = <<>>
  /\ speakers = EmptyMap
  /\ data = "None"
  /\ entities = {}
  /\ cycle = IdleCycle
  /\ raised = FALSE
  /\ send = SendIdle
  /\ zone \in {ZoneCall(answer, wrapped, groups, uuid, AddressOf(dev)) :
                 answer \in {"failed", "no_state", "state"},
                 wrapped \in BOOLEAN, groups \in GroupLists,
                 uuid \in Uuids \cup {""}, dev \in Uuids}
  /\ call = CallIdle
  /\ scan = ScanIdle

ZoneReturn ==
  /\ zone.pc = "called"
  /\ zone' = [zone EXCEPT
       !.pc = "returned",
       !.result = GetZoneGroupInfo(zone.answer, zone.wrapped, zone.groups,
                                   zone.uuid, zone.ip)]
  /\ UNCHANGED <<speaker_ips, speakers, data, entities, cycle, raised, send,
               call, scan>>

NextZone == ZoneReturn

SpecZone == InitZone /\ [][NextZone]_vars

\* The group blocks of a topology that have this device as a member.
BlocksOf(groups, uuid, ip) ==
  {i \in 1..Len(groups) :
     \E k \in 1..Len(groups[i].members) :
       \/ groups[i].members[k] = uuid
       \/ AddressOf(groups[i].members[k]) = ip}

\* What the resolution reports for a block.
Resolved(g, uuid) ==
  [group_members |-> [k \in 1..Len(g.members) |-> AddressOf(g.members[k])],
   is_coordinator |-> g.coordinator = uuid]

\* C10: when the topology was answered, the device's identifier is known
\* and a group block has the device as a member (by identifier or by
\* address), the resolution reports such a block: its member addresses in
\* block order and whether its coordinator is the device.
C10_ResolvesOwnBlock ==
  (zone.pc = "returned" /\ zone.answer = "state" /\ zone.uuid # ""
   /\ BlocksOf(zone.groups, zone.uuid, zone.ip) # {}) =>
    \E i \in BlocksOf(zone.groups, zone.uuid, zone.ip) :
      zone.result = Resolved(zone.groups[i], zone.uuid)

\* C11: the resolution always returns, and it returns the default (no
\* members, coordinator flag true) whenever the command failed, the response
\* has no topology section, or no group block has the device as a member.
C11_DefaultWhenNothingResolves ==
  /\ zone.pc \in {"called", "returned"}
  /\ ( /\ zone.pc = "returned"
       /\ \/ zone.answer \in {"failed", "no_state"}
          \/ BlocksOf(zone.groups, zone.uuid, zone.ip) = {} ) =>
      /\ zone.result.group_members = <<>>
      /\ zone.result.is_coordinator = TRUE

\* C11 witness: the topology was answered with two group blocks, none of
\* which has the device (identifier known) as a member, and the resolution
\* has returned the default.
C11_Witness ==
  /\ zone.pc = "returned"
  /\ zone.answer = "state"
  /\ zone.uuid = "Z" /\ zone.ip = AddressOf("Z")
  /\ ~zone.wrapped
  /\ Len(zone.groups) = 2
  /\ BlocksOf(zone.groups, zone.uuid, zone.ip) = {}
  /\ zone.result = [group_members |-> <<>>, is_coordinator |-> TRUE]

\* The snapshot map without the stamps of when a snapshot was fetched: the
\* dicts as the program holds them.
Values(spk) == [i \in DOMAIN spk |-> [spk[i] EXCEPT !.obs = "none"]]

\* C13: the snapshot map and the snapshots in it change only in the merge
\* step of a cycle or in a track or untrack of the coordinator; no call
\* of the presentation layer changes a field of a snapshot.
C13_OnlyCoordinatorWritesSnapshots ==
  [][Values(speakers') # Values(speakers) =>
       (MergeStep \/ speaker_ips' # speaker_ips)]_vars

\* ------------------------------------------------- mutation operations
\* The handlers of the media player, number and switch entities that change
\* something on the device.  A handler sends through SoCo or through
\* send_upnp_command and may call coordinator.async_request_refresh().

\* play, pause, stop, next, previous, seek, clear queue: SoCo; an exception
\* returns, otherwise the refresh is requested.
SocoOps ==
  {"play", "pause", "stop", "next_track", "previous_track", "seek",
   "clear_playlist"}

\* set volume, mute: SoCo; an exception returns, otherwise coordinator.data
\* is written and the state is published.
OptimisticOps == {"set_volume", "mute"}

\* set shuffle, set repeat: SoCo, with _send_av_transport_command as the
\* fallback when SoCo raises; the refresh is requested in either case.
FallbackOps == {"set_shuffle", "set_repeat"}

\* bass, treble, the six switches: one send_upnp_command, the refresh is
\* requested if it succeeded.
UpnpOps ==
  {"set_bass", "set_treble", "crossfade", "loudness", "status_light",
   "touch_controls", "night_mode", "speech_enhancement"}

MutationOps == SocoOps \cup OptimisticOps \cup FallbackOps \cup UpnpOps

\* A handler has been called: accepted says whether the device has taken
\* the change, refreshes counts the calls of async_request_refresh.
MutationCall(op, ip, value) ==
  [pc |-> "called", op |-> op, ip |-> ip, value |-> value,
   accepted |-> FALSE, refreshes |-> 0]

InitMutate ==
  /\ speaker_ips = <<>>
  /\ speakers = EmptyMap
  /\ data = "None"
  /\ entities = {}
  /\ cycle = IdleCycle
  /\ raised = FALSE
  /\ send = SendIdle
  /\ zone = ZoneIdle
  /\ call \in {MutationCall(op, ip, value) :
                 op \in MutationOps, ip \in IPs, value \in BOOLEAN}
  /\ scan = ScanIdle

\* The handler returns; refreshes more calls of async_request_refresh were
\* made on the way.
Returned(c, accepted, refreshes) ==
  [c EXCEPT !.pc = "returned", !.accepted = accepted,
            !.refreshes = @ + refreshes]

\* async_media_play and the like.
MutateSoco ==
  /\ call.pc = "called"
  /\ call.op \in SocoOps
  /\ \E ok \in BOOLEAN :
       call' = IF ok THEN Returned(call, TRUE, 1) ELSE Returned(call, FALSE, 0)
  /\ UNCHANGED <<speaker_ips, speakers, data, entities, cycle, raised, send,
                 zone, scan>>

\* async_set_volume_level, async_mute_volume: no refresh is requested.
MutateOptimistic ==
  /\ call.pc = "called"
  /\ call.op \in OptimisticOps
  /\ \E ok \in BOOLEAN : call' = Returned(call, ok, 0)
  /\ UNCHANGED <<speaker_ips, speakers, data, entities, cycle, raised, send,
                 zone, scan>>

\* SonosBassNumber.async_set_native_value, the switches' async_turn_on and
\* async_turn_off.
MutateUpnp ==
  /\ call.pc = "called"
  /\ call.op \in UpnpOps
  /\ \E ok \in BOOLEAN :
       call' = IF ok THEN Returned(call, TRUE, 1) ELSE Returned(call, FALSE, 0)
  /\ UNCHANGED <<speaker_ips, speakers, data, entities, cycle, raised, send,
                 zone, scan>>

\* async_set_shuffle, async_set_repeat up to the end of the SoCo call.
MutateWithFallback ==
  /\ call.pc = "called"
  /\ call.op \in FallbackOps
  /\ \E ok \in BOOLEAN :
       call' = IF ok THEN Returned(call, TRUE, 1)
               ELSE [call EXCEPT !.pc = "fallback"]
  /\ UNCHANGED <<speaker_ips, speakers, data, entities, cycle, raised, send,
                 zone, scan>>

\* The except branch: _send_av_transport_command requests a refresh when the
\* command succeeded, and the handler requests one after it.
MutateFallback ==
  /\ call.pc = "fallback"
  /\ \E ok \in BOOLEAN :
       call' = IF ok THEN Returned(call, TRUE, 2) ELSE Returned(call, FALSE, 1)
  /\ UNCHANGED <<speaker_ips, speakers, data, entities, cycle, raised, send,
                 zone, scan>>

NextMutate ==
  \/ MutateSoco
  \/ MutateOptimistic
  \/ MutateUpnp
  \/ MutateWithFallback
  \/ MutateFallback

SpecMutate == InitMutate /\ [][NextMutate]_vars

\* C14: a mutation that the device has accepted has requested a refresh
\* when its handler returns.
C14_AcceptedMutationRequestsRefresh ==
  (call.pc = "returned" /\ call.accepted) => call.refreshes >= 1

\* ------------------------------------------------------ join and unjoin
\* async_join_players and async_unjoin_player of the media player entity,
\* handle_join and handle_unjoin of the services.

MaxJoin == 3

\* Entity ids as get_ip_from_entity_id derives them from the zone names of
\* the snapshots; "media_player.gone" is the id of no snapshot.
EntityIds ==
  {"media_player.x", "media_player.y", "media_player.z", "media_player.gone"}

\* get_ip_from_entity_id: the address of the snapshot with that zone name, 0
\* for None.
IpFromEntityId(e) ==
  CASE e = "media_player.x" -> AddressOf("X")
    [] e = "media_player.y" -> AddressOf("Y")
    [] e = "media_player.z" -> AddressOf("Z")
    [] OTHER -> 0

\* Mutant of CoordinatorUri: the queue scheme instead of the group scheme.
CoordinatorUriQueue(uuid) == <<"x-rincon-queue:", uuid>>

\* coordinator_uri = f"x-rincon:{master_uuid}"
CoordinatorUri(uuid) == <<"x-rincon:", uuid>>

\* A command handed to send_upnp_command, and whether it succeeded.
Command(to, action, uri, ok) ==
  [to |-> to, action |-> action, uri |-> uri, ok |-> ok]

JoinCommand(to, uuid, ok) ==
  Command(to, "SetAVTransportURI", CoordinatorUri(uuid), ok)

UnjoinCommand(to, ok) ==
  Command(to, "BecomeCoordinatorOfStandaloneGroup", <<>>, ok)

MemberLists3 == UNION {[1..n -> EntityIds] : n \in 0..MaxJoin}

\* async_join_players(group_members) of the entity self, whose
\* _speaker_info holds master_uuid ("" when it holds none).
JoinPlayersCall(master_uuid, members) ==
  [pc |-> "called", op |-> "join_players", self |-> "media_player.x",
   master_uuid |-> master_uuid, members |-> members, i |-> 1,
   sent |-> <<>>, refreshes |-> 0]

\* handle_join with the member address and the master resolved: master_uuid
\* is the uuid of the master's snapshot ("" when there is none).
JoinCall(master_uuid, ip) ==
  [pc |-> "called", op |-> "join", self |-> "",
   master_uuid |-> master_uuid, members |-> <<>>, i |-> ip,
   sent |-> <<>>, refreshes |-> 0]

\* async_unjoin_player of an entity, handle_unjoin with the address resolved.
UnjoinCall(ip) ==
  [pc |-> "called", op |-> "unjoin", self |-> "",
   master_uuid |-> "", members |-> <<>>, i |-> ip,
   sent |-> <<>>, refreshes |-> 0]

InitJoin ==
  /\ speaker_ips = <<>>
  /\ speakers = EmptyMap
  /\ data = "None"
  /\ entities = {}
  /\ cycle = IdleCycle
  /\ raised = FALSE
  /\ send = SendIdle
  /\ zone = ZoneIdle
  /\ call \in
       {JoinPlayersCall(u, m) : u \in {"X", ""}, m \in MemberLists3}
       \cup {JoinCall(u, AddressOf(d)) : u \in {"X", ""}, d \in Uuids}
       \cup {UnjoinCall(AddressOf(d)) : d \in Uuids}
  /\ scan = ScanIdle

\* Mutant of AfterSend: a join command that fails ends the loop.
AfterSendStopOnFailure(i, ok, n) == IF ok THEN i + 1 ELSE n + 1

\* The loop index after the join command of member i of n: the outcome is
\* logged and the loop goes on.
AfterSend(i, ok, n) == i + 1

\* async_join_players up to the loop: without a master uuid it returns.
JoinPlayersStart ==
  /\ call.pc = "called"
  /\ call.op = "join_players"
  /\ call' = IF call.master_uuid = "" THEN [call EXCEPT !.pc = "returned"]
             ELSE [call EXCEPT !.pc = "loop"]
  /\ UNCHANGED <<speaker_ips, speakers, data, entities, cycle, raised, send,
                 zone, scan>>

\* An iteration that continues: the member is the entity itself or has no
\* address.
JoinPlayersSkip ==
  /\ call.pc = "loop"
  /\ call.i <= Len(call.members)
  /\ \/ call.members[call.i] = call.self
     \/ IpFromEntityId(call.members[call.i]) = 0
  /\ call' = [call EXCEPT !.i = @ + 1]
  /\ UNCHANGED <<speaker_ips, speakers, data, entities, cycle, raised, send,
                 zone, scan>>

\* An iteration that sends the join command to the member.
JoinPlayersSend ==
  /\ call.pc = "loop"
  /\ call.i <= Len(call.members)
  /\ call.members[call.i] # call.self
  /\ IpFromEntityId(call.members[call.i]) # 0
  /\ \E ok \in BOOLEAN :
       call' = [call EXCEPT
          !.sent = Append(@, JoinCommand(IpFromEntityId(call.members[call.i]),
                                         call.master_uuid, ok)),
          !.i = AfterSend(call.i, ok, Len(call.members))]
  /\ UNCHANGED <<speaker_ips, speakers, data, entities, cycle, raised, send,
                 zone, scan>>

\* The loop is over: the refresh is requested.
JoinPlayersFinish ==
  /\ call.pc = "loop"
  /\ call.i > Len(call.members)
  /\ call' = [call EXCEPT !.pc = "returned", !.refreshes = @ + 1]
  /\ UNCHANGED <<speaker_ips, speakers, data, entities, cycle, raised, send,
                 zone, scan>>

\* handle_join from the look-up of the master's uuid on.
JoinService ==
  /\ call.pc = "called"
  /\ call.op = "join"
  /\ \E ok \in BOOLEAN :
       call' = IF call.master_uuid = "" THEN [call EXCEPT !.pc = "returned"]
               ELSE [call EXCEPT
                       !.pc = "returned",
                       !.sent = <<JoinCommand(call.i, call.master_uuid, ok)>>,
                       !.refreshes = IF ok THEN 1 ELSE 0]
  /\ UNCHANGED <<speaker_ips, speakers, data, entities, cycle, raised, send,
                 zone, scan>>

\* async_unjoin_player, handle_unjoin.
Unjoin ==
  /\ call.pc = "called"
  /\ call.op = "unjoin"
  /\ \E ok \in BOOLEAN :
       call' = [call EXCEPT !.pc = "returned",
                            !.sent = <<UnjoinCommand(call.i, ok)>>,
                            !.refreshes = IF ok THEN 1 ELSE 0]
  /\ UNCHANGED <<speaker_ips, speakers, data, entities, cycle, raised, send,
                 zone, scan>>

NextJoin ==
  \/ JoinPlayersStart
  \/ JoinPlayersSkip
  \/ JoinPlayersSend
  \/ JoinPlayersFinish
  \/ JoinService
  \/ Unjoin

SpecJoin == InitJoin /\ [][NextJoin]_vars

\* The addresses the join commands went to, in the order they were sent.
Targets(sent) == [k \in DOMAIN sent |-> sent[k].to]

\* The entries of the requested list that are not the entity itself and
\* that have an address.
Joinable(c) ==
  SelectSeq(c.members, LAMBDA e : e # c.self /\ IpFromEntityId(e) # 0)

\* The addresses of those entries, in the order of the list.
JoinableIps(c) ==
  [k \in DOMAIN Joinable(c) |-> IpFromEntityId(Joinable(c)[k])]

\* How many join commands went to the address.
SentTo(sent, ip) == Cardinality({k \in DOMAIN sent : sent[k].to = ip})

JoinPlayersReturned == call.pc = "returned" /\ call.op = "join_players"

\* C15 as stated: when a multi-member join has returned, every member of
\* the requested list other than the coordinator itself that has an address
\* was sent exactly one join command.
C15_Original ==
  JoinPlayersReturned =>
    \A k \in DOMAIN Joinable(call) :
      SentTo(call.sent, IpFromEntityId(Joinable(call)[k])) = 1

\* C15: when a multi-member join of a coordinator whose identifier is known
\* has returned, the join commands sent are, in order, one for every entry of
\* the requested list other than the coordinator itself that has an address,
\* whether or not an earlier join command failed; entries without an address
\* are skipped.
C15_OneJoinCommandPerEntry ==
  (JoinPlayersReturned /\ call.master_uuid # "") =>
    Targets(call.sent) = JoinableIps(call)

\* A join where the first member's command failed, the second member had no
\* address and the third member was still sent its command.
C15_Witness ==
  /\ JoinPlayersReturned
  /\ call.members = <<"media_player.y", "media_player.gone", "media_player.z">>
  /\ Len(call.sent) = 2
  /\ ~call.sent[1].ok
  /\ call.sent[2].to = AddressOf("Z")

\* C16: every join command sent carries the playback source "x-rincon:"
\* followed by the coordinator's identifier, which is then not empty; a join
\* whose coordinator has no identifier returns with no command sent; an
\* unjoin returns with exactly one become-standalone-coordinator command
\* sent, to the given address.
C16_JoinCommandsNameTheCoordinator ==
  /\ call.op \in {"join_players", "join"} =>
       /\ \A k \in DOMAIN call.sent :
            /\ call.sent[k].action = "SetAVTransportURI"
            /\ call.sent[k].uri = <<"x-rincon:", call.master_uuid>>
            /\ call.master_uuid # ""
       /\ call.master_uuid = "" => call.sent = <<>>
       /\ (call.op = "join" /\ call.pc = "returned" /\ call.master_uuid # "") =>
            Targets(call.sent) = <<call.i>>
  /\ (call.op = "unjoin" /\ call.pc = "returned") =>
       /\ Len(call.sent) = 1
       /\ call.sent[1].action = "BecomeCoordinatorOfStandaloneGroup"
       /\ call.sent[1].to = call.i

\* A multi-member join that sent two commands naming the coordinator X.
C16_Witness ==
  /\ JoinPlayersReturned
  /\ call.master_uuid = "X"
  /\ Len(call.sent) = 2
  /\ \A k \in 1..2 : call.sent[k].uri = <<"x-rincon:", "X">>

\* -------------------------------------------------- descriptor fetcher
\* check_sonos_device, get_speaker_info and validate_sonos_ip.

\* A value of the UDN tag as the words of its text: with the prefix "uuid:"
\* or without it.  <<>> is a descriptor without the tag.
Udns == {<<>>, <<"uuid:", "RINCON_X">>, <<"RINCON_X">>}

\* A value of the serialNum tag, "None" for a descriptor without the tag.
SerialNums == {"None", "00-0E-58"}

\* What a GET can come to: an exception, or a response with its status and,
\* for the text of a 200, whether it holds "Sonos" and its UDN and serial
\* number.
NoText == [marker |-> FALSE, udn |-> <<>>, serial |-> "None"]

Raised(exc) == [kind |-> exc, status |-> 0, text |-> NoText]

Responded(status, text) == [kind |-> "response", status |-> status, text |-> text]

Texts == [marker : BOOLEAN, udn : Udns, serial : SerialNums]

Responses ==
  {Raised(exc) : exc \in {"ClientError", "TimeoutError", "OSError"}}
  \cup {Responded(404, NoText)}
  \cup {Responded(200, text) : text \in Texts}

\* if response.status == 200 and ("Sonos" in text or "sonos" in text.lower())
IsSonos(r) == r.kind = "response" /\ r.status = 200 /\ r.text.marker

\* udn[5:] if udn.startswith("uuid:") else udn
CleanUuid(udn) == IF Head(udn) = "uuid:" THEN Tail(udn) ELSE udn

\* The dict get_speaker_info returns for a 200: "udn" and "uuid" are set
\* only when the descriptor has a UDN.
SpeakerInfoOf(ip, status_available, text) ==
  LET base == [ip_address |-> ip, port |-> 1400,
               status_available |-> status_available,
               serial_number |-> text.serial]
  IN IF text.udn # <<>>
       THEN base @@ [udn |-> text.udn, uuid |-> CleanUuid(text.udn)]
       ELSE base

\* A call of the fetcher: by scan through check_sonos_device, or by
\* validate_sonos_ip, whose address is well-formed or not.  got holds the
\* responses to the GETs of the descriptor; info is <<>> for None and holds
\* the dict once the call has returned one; fetched holds the addresses
\* get_speaker_info was called with, requests those a GET was sent to.
FetchCall(via, ip, valid) ==
  [pc |-> "called", via |-> via, ip |-> ip, valid |-> valid, got |-> <<>>,
   status_available |-> "unset", returned |-> FALSE, info |-> <<>>,
   fetched |-> <<>>, requests |-> <<>>]

InitFetch ==
  /\ speaker_ips = <<>>
  /\ speakers = EmptyMap
  /\ data = "None"
  /\ entities = {}
  /\ cycle = IdleCycle
  /\ raised = FALSE
  /\ send = SendIdle
  /\ zone = ZoneIdle
  /\ call = CallIdle
  /\ scan \in {FetchCall("scan", ip, TRUE) : ip \in 1..2}
              \cup {FetchCall("validate", ip, valid) :
                      ip \in 1..2, valid \in BOOLEAN}

ReturnNone(c) == [c EXCEPT !.pc = "returned", !.returned = TRUE]

ReturnInfo(c, info) ==
  [c EXCEPT !.pc = "returned", !.returned = TRUE, !.info = <<info>>]

\* check_sonos_device: the GET of the descriptor and the test for the marker.
CheckSonosDevice ==
  /\ scan.pc = "called"
  /\ scan.via = "scan"
  /\ \E r \in Responses :
       LET c == [scan EXCEPT !.got = Append(@, r),
                             !.requests = Append(@, scan.ip)]
       IN scan' = IF IsSonos(r)
                    THEN [c EXCEPT !.pc = "get_speaker_info",
                                   !.fetched = Append(@, c.ip)]
                    ELSE ReturnNone(c)
  /\ UNCHANGED <<speaker_ips, speakers, data, entities, cycle, raised, send,
                 zone, call>>

\* Mutant of AddressAccepted: the address is not looked at.
AddressAcceptedAlways(c) == TRUE

\* IPv4Address(ip_address) does not raise ValueError.
AddressAccepted(c) == c.valid

\* validate_sonos_ip: IPv4Address(ip_address), then get_speaker_info.
ValidateSonosIp ==
  /\ scan.pc = "called"
  /\ scan.via = "validate"
  /\ scan' = IF AddressAccepted(scan)
               THEN [scan EXCEPT !.pc = "get_speaker_info",
                                 !.fetched = Append(@, scan.ip)]
               ELSE ReturnNone(scan)
  /\ UNCHANGED <<speaker_ips, speakers, data, entities, cycle, raised, send,
                 zone, call>>

\* get_speaker_info: the GET of /status/zp.  A ClientError or a timeout
\* sets status_available to False; an OSError reaches the outer handler.
GetStatus ==
  /\ scan.pc = "get_speaker_info"
  /\ \E r \in {Raised("ClientError"), Raised("TimeoutError"), Raised("OSError"),
                Responded(404, NoText), Responded(200, NoText)} :
       LET c == [scan EXCEPT !.requests = Append(@, scan.ip)]
       IN scan' = CASE r.kind = "OSError" -> ReturnNone(c)
                    [] r.kind \in {"ClientError", "TimeoutError"} ->
                         [c EXCEPT !.pc = "description",
                                   !.status_available = "False"]
                    [] r.status = 200 ->
                         [c EXCEPT !.pc = "description",
                                   !.status_available = "True"]
                    [] OTHER -> [c EXCEPT !.pc = "description"]
  /\ UNCHANGED <<speaker_ips, speakers, data, entities, cycle, raised, send,
                 zone, call>>

\* get_speaker_info: the GET of the descriptor; a 200 returns the dict.
GetDescription ==
  /\ scan.pc = "description"
  /\ \E r \in Responses :
       LET c == [scan EXCEPT !.got = Append(@, r),
                             !.requests = Append(@, scan.ip)]
       IN scan' = IF r.kind = "response" /\ r.status = 200
                    THEN ReturnInfo(c, SpeakerInfoOf(c.ip, c.status_available,
                                                     r.text))
                    ELSE ReturnNone(c)
  /\ UNCHANGED <<speaker_ips, speakers, data, entities, cycle, raised, send,
                 zone, call>>

NextFetch ==
  \/ CheckSonosDevice
  \/ ValidateSonosIp
  \/ GetStatus
  \/ GetDescription

SpecFetch == InitFetch /\ [][NextFetch]_vars

\* The descriptor the returned dict was built from.
Descriptor == scan.got[Len(scan.got)].text

ReturnedInfo == scan.pc = "returned" /\ scan.info # <<>>

\* The stable identifier by the policy of the claim.
StableIdentifier(ip, text) ==
  IF text.udn # <<>> THEN CleanUuid(text.udn)
  ELSE IF text.serial # "None" THEN text.serial
  ELSE ip

\* C17: every dict the fetcher returns holds a stable identifier: the UDN
\* without its prefix when the descriptor has a UDN, otherwise the serial
\* number, otherwise the address.
C17_RecordCarriesStableIdentifier ==
  ReturnedInfo =>
    /\ "uuid" \in DOMAIN scan.info[1]
    /\ scan.info[1].uuid = StableIdentifier(scan.ip, Descriptor)

\* C18: the fetcher, used by scan or by validate, returns a dict only when
\* a response to a GET of the descriptor was a 200 that holds the marker;
\* when every response was an exception, another status or a text without
\* the marker it returns None.
C18_AbsentWithoutMarker ==
  ReturnedInfo => \E k \in DOMAIN scan.got : IsSonos(scan.got[k])

\* ------------------------------------------------------- subnet scan
\* scan_subnet_for_sonos and its callers async_step_scan and
\* handle_scan_subnet.  Addresses are the last bits of an IPv4 address; a
\* network is an address and the number of host bits, 32 minus the prefix
\* length.

MaxHostBits == 3

\* SCAN_BATCH_SIZE, scaled to the networks above.
ScanBatchSize == 2

Pow2(n) == IF n = 0 THEN 1 ELSE IF n = 1 THEN 2 ELSE IF n = 2 THEN 4
           ELSE IF n = 3 THEN 8 ELSE 16

ScanAddresses == 0 .. (Pow2(MaxHostBits) - 1)

\* The addresses where a speaker listens; a probe of any other address
\* gives None.
Devices == {1, 2, 5}

\* The subnet strings: the empty string, a string IPv4Network rejects, and
\* the strings it parses, by their address and host bits.
Subnets ==
  {[kind |-> k, address |-> 0, bits |-> 0] : k \in {"empty", "malformed"}}
  \cup {[kind |-> "cidr", address |-> a, bits |-> h] :
          a \in ScanAddresses, h \in 0..MaxHostBits}

\* IPv4Network(subnet, strict=False): the host bits of the address are
\* cleared.
NetworkAddress(subnet) == subnet.address - (subnet.address % Pow2(subnet.bits))

BroadcastAddress(subnet) == NetworkAddress(subnet) + Pow2(subnet.bits) - 1

RECURSIVE Ascending(_, _)
Ascending(from, to) ==
  IF from > to THEN <<>> ELSE <<from>> \o Ascending(from + 1, to)

\* network.hosts(): the addresses between the network address and the
\* broadcast address; both addresses of a /31; the address of a /32.
Hosts(subnet) ==
  IF subnet.bits >= 2
    THEN Ascending(NetworkAddress(subnet) + 1, BroadcastAddress(subnet) - 1)
    ELSE Ascending(NetworkAddress(subnet), BroadcastAddress(subnet))

\* Mutant of Batch: a last batch shorter than the batch size is dropped.
BatchFullOnly(all_ips, i) ==
  IF i + ScanBatchSize <= Len(all_ips)
    THEN SubSeq(all_ips, i + 1, i + ScanBatchSize)
    ELSE <<>>

\* all_ips[i:i + SCAN_BATCH_SIZE]
Batch(all_ips, i) ==
  SubSeq(all_ips, i + 1, Min(i + ScanBatchSize, Len(all_ips)))

\* A scan asked for by the config flow or by the scan_subnet service.
\* pending holds the tasks of the gather that have not started, inflight
\* those that have started and not completed, outcome what each completed
\* task gave; probes counts the calls of check_sonos_device per address,
\* sessions the client sessions opened; error is errors["base"] of the
\* config flow.
ScanCall(via, subnet) ==
  [pc |-> "called", via |-> via, subnet |-> subnet, all_ips |-> <<>>,
   i |-> 0, pending |-> {}, inflight |-> {},
   outcome |-> [a \in ScanAddresses |-> "unset"], discovered |-> <<>>,
   probes |-> [a \in ScanAddresses |-> 0], sessions |-> 0,
   scanned |-> FALSE, error |-> ""]

InitScan ==
  /\ speaker_ips = <<>>
  /\ speakers = EmptyMap
  /\ data = "None"
  /\ entities = {}
  /\ cycle = IdleCycle
  /\ raised = FALSE
  /\ send = SendIdle
  /\ zone = ZoneIdle
  /\ call = CallIdle
  /\ scan \in {ScanCall(via, subnet) :
                 via \in {"config_flow", "service"}, subnet \in Subnets}

\* What the caller makes of the list: async_step_scan sets
\* errors["base"] when it is empty, handle_scan_subnet fires its event.
Returned2Caller(c) ==
  [c EXCEPT !.pc = "returned",
            !.error = IF c.via = "config_flow" /\ c.discovered = <<>>
                        THEN "no_devices_found" ELSE ""]

\* async_step_scan with an empty subnet: the scan is not called.
StepScanEmpty ==
  /\ scan.pc = "called"
  /\ scan.via = "config_flow"
  /\ scan.subnet.kind = "empty"
  /\ scan' = [scan EXCEPT !.pc = "returned", !.error = "invalid_subnet"]
  /\ UNCHANGED <<speaker_ips, speakers, data, entities, cycle, raised, send,
                 zone, call>>

\* scan_subnet_for_sonos with a string IPv4Network rejects: the error is
\* logged and [] is returned.
ScanInvalid ==
  /\ scan.pc = "called"
  /\ scan.subnet.kind # "cidr"
  /\ scan.via = "config_flow" => scan.subnet.kind # "empty"
  /\ scan' = Returned2Caller([scan EXCEPT !.scanned = TRUE])
  /\ UNCHANGED <<speaker_ips, speakers, data, entities, cycle, raised, send,
                 zone, call>>

\* scan_subnet_for_sonos up to the loop: the hosts are listed and the
\* session is opened.
ScanStart ==
  /\ scan.pc = "called"
  /\ scan.subnet.kind = "cidr"
  /\ scan' = [scan EXCEPT !.pc = "loop", !.scanned = TRUE,
                          !.all_ips = Hosts(scan.subnet),
                          !.sessions = @ + 1]
  /\ UNCHANGED <<speaker_ips, speakers, data, entities, cycle, raised, send,
                 zone, call>>

\* The tasks of the next batch are gathered.
BatchStart ==
  /\ scan.pc = "loop"
  /\ scan.i < Len(scan.all_ips)
  /\ scan' = [scan EXCEPT !.pc = "gather",
                          !.pending = Range(Batch(scan.all_ips, scan.i))]
  /\ UNCHANGED <<speaker_ips, speakers, data, entities, cycle, raised, send,
                 zone, call>>

\* The task of one address of the batch starts: check_sonos_device sends
\* its GET.
Probe(ip) ==
  /\ scan.pc = "gather"
  /\ ip \in scan.pending
  /\ scan' = [scan EXCEPT !.pending = @ \ {ip},
                          !.inflight = @ \cup {ip},
                          !.probes[ip] = @ + 1]
  /\ UNCHANGED <<speaker_ips, speakers, data, entities, cycle, raised, send,
                 zone, call>>

\* What check_sonos_device can come to: a dict when a speaker answers, None,
\* or an exception it does not catch.
ProbeOutcomes(ip) ==
  IF ip \in Devices THEN {"dict", "None", "exception"} ELSE {"None"}

\* The task of one address completes.
ProbeDone(ip) ==
  /\ scan.pc = "gather"
  /\ ip \in scan.inflight
  /\ \E o \in ProbeOutcomes(ip) :
       scan' = [scan EXCEPT !.inflight = @ \ {ip}, !.outcome[ip] = o]
  /\ UNCHANGED <<speaker_ips, speakers, data, entities, cycle, raised, send,
                 zone, call>>

\* Mutant of GatherReturns: the gather returns once every task has started.
GatherReturnsEarly(c) == c.pending = {}

\* asyncio.gather(*tasks, return_exceptions=True) returns when every task
\* has completed.
GatherReturns(c) == c.pending = {} /\ c.inflight = {}

\* Mutant of IsDevice: an exception is taken for a device too.
IsDeviceOrException(result) == result \in {"dict", "exception"}

\* isinstance(result, dict) and result
IsDevice(result) == result = "dict"

\* The gather is over: the dicts are appended in the order of the batch.
BatchEnd ==
  /\ scan.pc = "gather"
  /\ GatherReturns(scan)
  /\ scan' = [scan EXCEPT
       !.pc = "loop",
       !.discovered = @ \o SelectSeq(Batch(scan.all_ips, scan.i),
                                      LAMBDA a : IsDevice(scan.outcome[a])),
       !.i = @ + ScanBatchSize]
  /\ UNCHANGED <<speaker_ips, speakers, data, entities, cycle, raised, send,
                 zone, call>>

\* The loop is over: the list is returned to the caller.
ScanReturn ==
  /\ scan.pc = "loop"
  /\ scan.i >= Len(scan.all_ips)
  /\ scan' = Returned2Caller(scan)
  /\ UNCHANGED <<speaker_ips, speakers, data, entities, cycle, raised, send,
                 zone, call>>

NextScan ==
  \/ StepScanEmpty
  \/ ScanInvalid
  \/ ScanStart
  \/ BatchStart
  \/ \E ip \in ScanAddresses : Probe(ip)
  \/ \E ip \in ScanAddresses : ProbeDone(ip)
  \/ BatchEnd
  \/ ScanReturn

SpecScan == InitScan /\ [][NextScan]_vars

ScanReturned == scan.pc = "returned" /\ scan.scanned

\* The address lies in the subnet and, in a subnet of four addresses or
\* more, is neither its first nor its last address.
Usable(a) ==
  IF scan.subnet.bits >= 2
    THEN NetworkAddress(scan.subnet) < a /\ a < BroadcastAddress(scan.subnet)
    ELSE NetworkAddress(scan.subnet) <= a /\ a <= BroadcastAddress(scan.subnet)

Probed == {a \in ScanAddresses : scan.probes[a] > 0}

\* C19 as stated: no address is probed twice and none outside the usable
\* hosts; a scan that has returned has probed every usable host; the network
\* address and the broadcast address of the subnet are never probed; a scan
\* of a /30 that has returned has probed 2 addresses.
C19_Original ==
  scan.subnet.kind = "cidr" =>
    /\ \A a \in ScanAddresses : scan.probes[a] <= (IF Usable(a) THEN 1 ELSE 0)
    /\ ScanReturned => \A a \in ScanAddresses : Usable(a) => scan.probes[a] = 1
    /\ scan.probes[NetworkAddress(scan.subnet)] = 0
    /\ scan.probes[BroadcastAddress(scan.subnet)] = 0
    /\ (ScanReturned /\ scan.subnet.bits = 2) => Cardinality(Probed) = 2

\* C19: no address is probed twice and none outside the usable hosts; a scan
\* that has returned has probed every usable host; in a subnet with a prefix
\* of at most 30 bits the network address and the broadcast address are never
\* probed, while in a /31 and a /32 every address of the subnet is a usable
\* host; a scan of a /30 that has returned has probed 2 addresses.
C19_EveryHostProbedOnce ==
  scan.subnet.kind = "cidr" =>
    /\ \A a \in ScanAddresses : scan.probes[a] <= (IF Usable(a) THEN 1 ELSE 0)
    /\ ScanReturned => \A a \in ScanAddresses : Usable(a) => scan.probes[a] = 1
    /\ scan.subnet.bits >= 2 =>
         /\ scan.probes[NetworkAddress(scan.subnet)] = 0
         /\ scan.probes[BroadcastAddress(scan.subnet)] = 0
    /\ (ScanReturned /\ scan.subnet.bits = 2) => Cardinality(Probed) = 2

\* A scan of a /29 given by an address inside it has returned: its six hosts
\* were probed in three batches, and some were found.
C19_Witness ==
  /\ ScanReturned
  /\ scan.subnet = [kind |-> "cidr", address |-> 5, bits |-> 3]
  /\ Probed = 1..6
  /\ scan.i = 6
  /\ scan.discovered = <<2, 5>>

\* C20: a scan of a string that is not a CIDR returns an empty list, its
\* caller is told of a configuration error, and it probes no address and
\* opens no session.
C20_InvalidSubnetIsSignalled ==
  (ScanReturned /\ scan.subnet.kind # "cidr") =>
    /\ scan.discovered = <<>>
    /\ scan.error = "invalid_subnet"
    /\ Probed = {}
    /\ scan.sessions = 0

\* The place of an address in the list of hosts, 0 when it is not in it.
PlaceOf(a) ==
  IF \E k \in DOMAIN scan.all_ips : scan.all_ips[k] = a
    THEN CHOOSE k \in DOMAIN scan.all_ips : scan.all_ips[k] = a
    ELSE 0

\* The number of the batch an address of the list belongs to, from 0.
BatchOf(a) == (PlaceOf(a) - 1) \div ScanBatchSize

Completed == {a \in ScanAddresses : scan.outcome[a] # "unset"}

\* C21: at no time are more probes in flight than the batch size, and while
\* a probe of a batch has started, every probe of every earlier batch has
\* completed and no probe of a later batch has started.
C21_BatchesRunOneAfterTheOther ==
  /\ Cardinality(scan.inflight) <= ScanBatchSize
  /\ \A a \in Probed : \A b \in Range(scan.all_ips) :
       /\ BatchOf(b) < BatchOf(a) => b \in Completed
       /\ (BatchOf(b) > BatchOf(a) /\ a \notin Completed) => b \notin Probed

\* The second batch of a /29 has both its probes in flight.
C21_Witness ==
  /\ scan.pc = "gather"
  /\ scan.subnet.bits = 3
  /\ scan.i = ScanBatchSize
  /\ scan.inflight = Range(Batch(scan.all_ips, scan.i))
  /\ Cardinality(scan.inflight) = ScanBatchSize

\* The addresses whose probe gave a dict.
Yielded == {a \in ScanAddresses : scan.outcome[a] = "dict"}

\* C22: the list of a scan never holds an address whose probe gave no dict
\* and holds no address twice; when the scan has returned, the list holds
\* every address whose probe gave a dict, whatever the other probes gave.
C22_ListHoldsExactlyTheDevices ==
  /\ Range(scan.discovered) \subseteq Yielded
  /\ Cardinality(Range(scan.discovered)) = Len(scan.discovered)
  /\ ScanReturned => Range(scan.discovered) = Yielded

\* A scan of a /29 has returned: the probe of one address raised, that of
\* another gave None, and the two later devices are in the list.
C22_Witness ==
  /\ ScanReturned
  /\ scan.subnet.bits = 3
  /\ scan.outcome[1] = "exception"
  /\ scan.outcome[3] = "None"
  /\ scan.discovered = <<2, 5>>

\* C23: validate of an address that is not well-formed returns None and
\* sends no request; validate of a well-formed address calls the fetcher
\* once, for that address, and every request goes to that address.
C23_ValidateFetchesOnce ==
  scan.via = "validate" =>
    /\ ~scan.valid =>
         /\ scan.requests = <<>>
         /\ scan.fetched = <<>>
         /\ scan.info = <<>>
    /\ (scan.valid /\ scan.pc = "returned") => scan.fetched = <<scan.ip>>
    /\ \A k \in DOMAIN scan.requests : scan.requests[k] = scan.ip
    /\ Len(scan.got) <= 1

\* validate of a well-formed address has returned the dict of its one
\* fetch.
C23_Witness ==
  /\ scan.via = "validate"
  /\ scan.valid
  /\ scan.ip = 2
  /\ ReturnedInfo
  /\ scan.fetched = <<2>>
  /\ scan.requests = <<2, 2>>

\* ------------------------------------------- presentation of the group
\* The group_members property of the media player entity, read after a poll
\* stored the members that _get_zone_group_info resolved.

MaxTopology == 3

\* The addresses a topology can name; the last one is never tracked.
TopologyAddresses == 1..4

\* The member addresses of the resolved group block, in its order.
Topologies == UNION {[1..n -> TopologyAddresses] : n \in 0..MaxTopology}

\* The zone names of the snapshots: "" for a snapshot without one.
ZoneNames == {"", "room"}

\* f"media_player.{zone_name.lower().replace(' ', '_')}" of the snapshot
\* of an address; the zone names of different addresses differ.
EntityIdOf(a) == <<"media_player", a>>

\* The entity of address 1 while its poll is under way: tracked holds the
\* tracked addresses, names the zone name of every address that has a
\* snapshot (tracked addresses only), topology what the device answers.
MembersCall(tracked, names, topology) ==
  [pc |-> "polling", op |-> "group_members", ip |-> 1, tracked |-> tracked,
   names |-> names, topology |-> topology, group_members |-> <<>>,
   completed |-> FALSE, untracked |-> {},
   result |-> [none |-> TRUE, ids |-> <<>>]]

InitMembers ==
  /\ speaker_ips = <<>>
  /\ speakers = EmptyMap
  /\ data = "None"
  /\ entities = {}
  /\ cycle = IdleCycle
  /\ raised = FALSE
  /\ send = SendIdle
  /\ zone = ZoneIdle
  /\ call \in UNION {
       {MembersCall(tracked, names, topology) :
          names \in {n \in UNION {[d -> ZoneNames] :
                                    d \in {e \in SUBSET tracked : 1 \in e}} :
                     n[1] = "room"},
          topology \in Topologies} :
       tracked \in {t \in SUBSET (1..3) : 1 \in t}}
  /\ scan = ScanIdle

\* The poll of the device returns: the member addresses of its group block
\* are stored as they are, and the cycle completes.
MembersStored ==
  /\ call.pc = "polling"
  /\ call.op = "group_members"
  /\ call' = [call EXCEPT !.pc = "stored", !.group_members = call.topology,
                          !.completed = TRUE]
  /\ UNCHANGED <<speaker_ips, speakers, data, entities, cycle, raised, send,
                 zone, scan>>

\* Mutant of Forget: untrack leaves the snapshot in the map.
ForgetNothing(names, a) == names

\* self._speakers.pop(ip_address, None)
Forget(names, a) == [b \in DOMAIN names \ {a} |-> names[b]]

\* async_remove_speaker of another address between the poll and the read.
MembersUntrack(a) ==
  /\ call.pc = "stored"
  /\ a \in call.tracked \ {call.ip}
  /\ call' = [call EXCEPT !.tracked = @ \ {a}, !.names = Forget(@, a),
                          !.untracked = @ \cup {a}]
  /\ UNCHANGED <<speaker_ips, speakers, data, entities, cycle, raised, send,
                 zone, scan>>

\* The loop of the property: the entity id of every member address that has
\* a snapshot with a zone name.
MemberEntityIds(member_ips, names) ==
  LET known == SelectSeq(member_ips,
                         LAMBDA a : a \in DOMAIN names /\ names[a] # "")
  IN [k \in DOMAIN known |-> EntityIdOf(known[k])]

\* group_members: None for a list of at most one address and for an empty
\* list of entity ids.
GroupMembers(member_ips, names) ==
  IF Len(member_ips) <= 1 \/ MemberEntityIds(member_ips, names) = <<>>
    THEN [none |-> TRUE, ids |-> <<>>]
    ELSE [none |-> FALSE, ids |-> MemberEntityIds(member_ips, names)]

\* The property is read.
MembersRead ==
  /\ call.pc = "stored"
  /\ call' = [call EXCEPT !.pc = "read",
                          !.result = GroupMembers(call.group_members,
                                                  call.names)]
  /\ UNCHANGED <<speaker_ips, speakers, data, entities, cycle, raised, send,
                 zone, scan>>

NextMembers ==
  \/ MembersStored
  \/ \E a \in 1..3 : MembersUntrack(a)
  \/ MembersRead

SpecMembers == InitMembers /\ [][NextMembers]_vars

\* C24: the poll that stores a group completes whatever addresses the
\* topology names, and the group members presented hold the entity of no
\* address that is not tracked when they are read.
C24_UntrackedMembersAreOmitted ==
  /\ call.pc # "polling" => call.completed
  /\ call.pc = "read" =>
       \A k \in DOMAIN call.result.ids :
         \E a \in call.tracked :
           /\ call.result.ids[k] = EntityIdOf(a)
           /\ \E j \in DOMAIN call.group_members : call.group_members[j] = a

\* A group of the device, of an address untracked since the poll and of one
\* never tracked was presented as the device alone.
C24_Witness ==
  /\ call.pc = "read"
  /\ call.op = "group_members"
  /\ call.group_members = <<1, 2, 4>>
  /\ call.tracked = {1, 3}
  /\ call.untracked = {2}
  /\ call.result = [none |-> FALSE, ids |-> <<EntityIdOf(1)>>]

\* --------------------------------------------------------- tag extractor
\* extract_xml_value of helpers.py and _extract_xml_value of discovery.py.
\* A text is a sequence of elements <name>value</name> or
\* <name attr="...">value</name>; a value is the sequence of its characters.

MaxElements == 2

ElementNames == {"UDN", "udn", "other"}

ElementValues == {<<>>, <<"a">>, <<" ", "b", " ">>}

Elements == [name : ElementNames, attrs : BOOLEAN, value : ElementValues]

XmlTexts == UNION {[1..n -> Elements] : n \in 0..MaxElements}

\* re.IGNORECASE on the tag.
Lower(name) == IF name = "UDN" THEN "udn" ELSE name

RECURSIVE LStrip(_)
LStrip(v) == IF v # <<>> /\ Head(v) = " " THEN LStrip(Tail(v)) ELSE v

RECURSIVE RStrip(_)
RStrip(v) ==
  IF v # <<>> /\ v[Len(v)] = " " THEN RStrip(SubSeq(v, 1, Len(v) - 1)) ELSE v

\* str.strip()
Strip(v) == RStrip(LStrip(v))

\* The value group of the patterns: ([^<]*) in helpers.py, ([^<]+) in
\* discovery.py.
ValueMatches(variant, e) == variant = "helpers" \/ e.value # <<>>

\* The places where a pattern matches: the first pattern <tag>(...)</tag>
\* matches elements without attributes, the second <tag[^>]*>(...)</tag>
\* elements with or without.
MatchesOf(variant, text, tag, pattern) ==
  {k \in DOMAIN text :
     /\ Lower(text[k].name) = Lower(tag)
     /\ pattern = 1 => ~text[k].attrs
     /\ ValueMatches(variant, text[k])}

NoValue == [found |-> FALSE, value |-> <<>>]

\* re.search(pattern, xml_text): the leftmost match.
SearchValue(variant, text, tag, pattern) ==
  LET ms == MatchesOf(variant, text, tag, pattern)
  IN IF ms = {} THEN NoValue
     ELSE [found |-> TRUE,
           value |-> Strip(text[CHOOSE k \in ms : \A j \in ms : k <= j].value)]

\* The loop over the two patterns: the first pattern that matches anywhere
\* gives the value.
ExtractXmlValue(variant, text, tag) ==
  IF SearchValue(variant, text, tag, 1).found
    THEN SearchValue(variant, text, tag, 1)
    ELSE SearchValue(variant, text, tag, 2)

ExtractCall(variant, text, tag) ==
  [pc |-> "called", op |-> "extract", variant |-> variant, text |-> text,
   tag |-> tag, result |-> NoValue]

InitExtract ==
  /\ speaker_ips = <<>>
  /\ speakers = EmptyMap
  /\ data = "None"
  /\ entities = {}
  /\ cycle = IdleCycle
  /\ raised = FALSE
  /\ send = SendIdle
  /\ zone = ZoneIdle
  /\ call \in {ExtractCall(variant, text, tag) :
                 variant \in {"helpers", "discovery"}, text \in XmlTexts,
                 tag \in {"UDN", "udn"}}
  /\ scan = ScanIdle

ExtractReturn ==
  /\ call.pc = "called"
  /\ call.op = "extract"
  /\ call' = [call EXCEPT !.pc = "returned",
                          !.result = ExtractXmlValue(call.variant, call.text,
                                                     call.tag)]
  /\ UNCHANGED <<speaker_ips, speakers, data, entities, cycle, raised, send,
                 zone, scan>>

NextExtract == ExtractReturn

SpecExtract == InitExtract /\ [][NextExtract]_vars

\* The elements of the text named tag, whatever the case and the attributes.
Occurrences(text, tag) ==
  {k \in DOMAIN text : Lower(text[k].name) = Lower(tag)}

\* C25: extract returns the trimmed value of the first element of the text
\* named tag, compared without regard to case, with attributes or without;
\* so the earlier of an element with attributes and a later one without.
C25_FirstOccurrence ==
  (call.pc = "returned" /\ Occurrences(call.text, call.tag) # {}) =>
    LET first == CHOOSE k \in Occurrences(call.text, call.tag) :
                   \A j \in Occurrences(call.text, call.tag) : k <= j
    IN call.result = [found |-> TRUE, value |-> Strip(call.text[first].value)]

\* ------------------------------------------------------------ coercions
\* extract_xml_value_bool and extract_xml_value_int on a text of at most one
\* element.

\* The values of the element, as their characters.
CoerceValues ==
  {<<"1">>, <<"t", "r", "u", "e">>, <<"T", "R", "U", "E">>, <<"O", "n">>,
   <<"y", "e", "s">>, <<"Y", "E", "S">>, <<" ", "1", " ">>, <<"0">>,
   <<"n", "o">>, <<"o", "f", "f">>, <<"2">>, <<"t", "r", "u", "t", "h", "y">>,
   <<>>, <<" ">>, <<"1", "2">>, <<"-", "3">>, <<"+", "4">>, <<"0", "0", "7">>,
   <<"3", ".", "5">>, <<"a", "b", "c">>, <<"1", "-", "2">>, <<" ", "5", " ">>,
   <<"-">>}

LowerChar(c) ==
  CASE c = "T" -> "t" [] c = "R" -> "r" [] c = "U" -> "u" [] c = "E" -> "e"
    [] c = "O" -> "o" [] c = "Y" -> "y" [] c = "S" -> "s" [] OTHER -> c

\* str.lower()
LowerValue(v) == [k \in DOMAIN v |-> LowerChar(v[k])]

\* Mutant of TrueWords: "yes" is not among them.
TrueWordsNoYes ==
  {<<"1">>, <<"t", "r", "u", "e">>, <<"o", "n">>}

\* ("1", "true", "on", "yes")
TrueWords ==
  {<<"1">>, <<"t", "r", "u", "e">>, <<"o", "n">>, <<"y", "e", "s">>}

Digits == <<"0", "1", "2", "3", "4", "5", "6", "7", "8", "9">>

IsDigit(c) == \E d \in DOMAIN Digits : Digits[d] = c

DigitValue(c) == (CHOOSE d \in DOMAIN Digits : Digits[d] = c) - 1

RECURSIVE Decimal(_, _)
Decimal(v, acc) ==
  IF v = <<>> THEN acc ELSE Decimal(Tail(v), 10 * acc + DigitValue(Head(v)))

\* int(value): an optional sign and digits; anything else raises ValueError.
ParseInt(v) ==
  LET signed == v # <<>> /\ Head(v) \in {"-", "+"}
      digits == IF signed THEN Tail(v) ELSE v
  IN IF digits = <<>> \/ \E k \in DOMAIN digits : ~IsDigit(digits[k])
       THEN [ok |-> FALSE, n |-> 0]
       ELSE [ok |-> TRUE,
             n |-> IF signed /\ Head(v) = "-" THEN 0 - Decimal(digits, 0)
                   ELSE Decimal(digits, 0)]

\* extract_xml_value_bool
ExtractXmlValueBool(text, tag, default) ==
  LET value == ExtractXmlValue("helpers", text, tag)
  IN IF value.found /\ value.value # <<>>
       THEN LowerValue(value.value) \in TrueWords
       ELSE default

\* extract_xml_value_int
ExtractXmlValueInt(text, tag, default) ==
  LET value == ExtractXmlValue("helpers", text, tag)
  IN IF value.found /\ value.value # <<>> /\ ParseInt(value.value).ok
       THEN ParseInt(value.value).n
       ELSE default

\* The texts: no element, or one element named tag.
CoerceTexts ==
  {<<>>} \cup {<<[name |-> "UDN", attrs |-> a, value |-> v]>> :
                 a \in BOOLEAN, v \in CoerceValues}

\* A boolean and an integer, as values of one shape.
BoolOf(b) == [b |-> b, n |-> 0]

IntOf(n) == [b |-> FALSE, n |-> n]

CoerceCall(op, text, default) ==
  [pc |-> "called", op |-> op, text |-> text, default |-> default,
   result |-> default]

InitCoerce ==
  /\ speaker_ips = <<>>
  /\ speakers = EmptyMap
  /\ data = "None"
  /\ entities = {}
  /\ cycle = IdleCycle
  /\ raised = FALSE
  /\ send = SendIdle
  /\ zone = ZoneIdle
  /\ call \in {CoerceCall("bool", text, BoolOf(default)) :
                 text \in CoerceTexts, default \in BOOLEAN}
              \cup {CoerceCall("int", text, IntOf(default)) :
                      text \in CoerceTexts, default \in {0, 50}}
  /\ scan = ScanIdle

CoerceBool ==
  /\ call.pc = "called"
  /\ call.op = "bool"
  /\ call' = [call EXCEPT !.pc = "returned",
                          !.result = BoolOf(ExtractXmlValueBool(
                                        call.text, "UDN", call.default.b))]
  /\ UNCHANGED <<speaker_ips, speakers, data, entities, cycle, raised, send,
                 zone, scan>>

CoerceInt ==
  /\ call.pc = "called"
  /\ call.op = "int"
  /\ call' = [call EXCEPT !.pc = "returned",
                          !.result = IntOf(ExtractXmlValueInt(
                                        call.text, "UDN", call.default.n))]
  /\ UNCHANGED <<speaker_ips, speakers, data, entities, cycle, raised, send,
                 zone, scan>>

NextCoerce == CoerceBool \/ CoerceInt

SpecCoerce == InitCoerce /\ [][NextCoerce]_vars

\* The values that read as true, and the values that read as an integer
\* with the integer they read as.
ReadAsTrue ==
  {<<"1">>, <<"t", "r", "u", "e">>, <<"T", "R", "U", "E">>, <<"O", "n">>,
   <<"y", "e", "s">>, <<"Y", "E", "S">>, <<" ", "1", " ">>}

\* The values that read as an integer.
ReadAsIntegers ==
  {<<"1", "2">>,
   <<"-", "3">>,
   <<"+", "4">>,
   <<"0", "0", "7">>,
   <<" ", "5", " ">>,
   <<"1">>,
   <<" ", "1", " ">>,
   <<"0">>,
   <<"2">>}

ReadAsInteger(v) ==
    CASE v = <<"1", "2">> -> 12
      [] v = <<"-", "3">> -> -3
      [] v = <<"+", "4">> -> 4
      [] v = <<"0", "0", "7">> -> 7
      [] v = <<" ", "5", " ">> -> 5
      [] v = <<"1">> -> 1
      [] v = <<" ", "1", " ">> -> 1
      [] v = <<"0">> -> 0
      [] v = <<"2">> -> 2
      [] OTHER -> 0

\* The value of the element is absent or empty once trimmed.
NoContent == call.text = <<>> \/ call.text[1].value \in {<<>>, <<" ">>}

\* C26: the boolean coercion gives true for "1", "true", "on" and "yes" in
\* any case, false for any other value that is not empty, and the default
\* for an absent or empty value; the integer coercion gives the integer the
\* value reads as, and the default for an absent, empty or unparsable value.
C26_Coercions ==
  call.pc = "returned" =>
    /\ call.op = "bool" =>
         call.result.b = (IF NoContent THEN call.default.b
                          ELSE call.text[1].value \in ReadAsTrue)
    /\ call.op = "int" =>
         call.result.n =
           (IF NoContent \/ call.text[1].value \notin ReadAsIntegers
              THEN call.default.n
              ELSE ReadAsInteger(call.text[1].value))

\* "YES" inside an element with attributes was read as true against a
\* default of false.
C26_Witness ==
  /\ call.pc = "returned"
  /\ call.op = "bool"
  /\ call.text = <<[name |-> "UDN", attrs |-> TRUE,
                    value |-> <<"Y", "E", "S">>]>>
  /\ ~call.default.b
  /\ call.result.b

\* ------------------------------------------------------------ durations
\* format_duration and parse_duration, on strings as their characters.

\* The largest number of seconds formatted (99:59:59).
MaxSeconds == 359999

\* str(n)
RECURSIVE DecimalDigits(_)
DecimalDigits(n) ==
  IF n < 10 THEN <<Digits[n + 1]>>
  ELSE DecimalDigits(n \div 10) \o <<Digits[(n % 10) + 1]>>

\* Mutant of TwoDigits: no zero padding and one digit only.
OneDigit(n) == <<Digits[(n % 10) + 1]>>

\* f"{n:02d}"
TwoDigits(n) ==
  IF n < 10 THEN <<"0">> \o DecimalDigits(n) ELSE DecimalDigits(n)

\* format_duration
FormatDuration(seconds) ==
  LET hours == seconds \div 3600
      minutes == (seconds % 3600) \div 60
      secs == seconds % 60
  IN DecimalDigits(hours) \o <<":">> \o TwoDigits(minutes) \o <<":">>
       \o TwoDigits(secs)

\* str.split(":")
RECURSIVE Split(_, _)
Split(str, part) ==
  IF str = <<>> THEN <<part>>
  ELSE IF Head(str) = ":" THEN <<part>> \o Split(Tail(str), <<>>)
  ELSE Split(Tail(str), Append(part, Head(str)))

\* parse_duration
ParseDuration(duration_str) ==
  IF duration_str = <<>> THEN 0
  ELSE LET parts == Split(duration_str, <<>>)
           int(k) == ParseInt(parts[k])
       IN IF Len(parts) = 3
            THEN IF int(1).ok /\ int(2).ok /\ int(3).ok
                   THEN int(1).n * 3600 + int(2).n * 60 + int(3).n
                   ELSE 0
          ELSE IF Len(parts) = 2
            THEN IF int(1).ok /\ int(2).ok
                   THEN int(1).n * 60 + int(2).n
                   ELSE 0
          ELSE 0

\* The strings given to parse_duration directly.
DurationStrings ==
  {<<>>,
   <<"a", "b", "c">>,
   <<"1", ":", "x", "x">>,
   <<"x", ":", "1", "0">>,
   <<"5">>,
   <<"1", ":", "2", ":", "3", ":", "4">>,
   <<":">>,
   <<"0", ":", "0", "3", ":", "4", "5">>,
   <<"3", ":", "4", "5">>,
   <<"1", ":", "0", "0", ":", "0", "0">>,
   <<"0", ":", "6", "0">>}

DurationCall(op, seconds, duration_str) ==
  [pc |-> "called", op |-> op, seconds |-> seconds,
   duration_str |-> duration_str, parsed |-> 0]

InitDuration ==
  /\ speaker_ips = <<>>
  /\ speakers = EmptyMap
  /\ data = "None"
  /\ entities = {}
  /\ cycle = IdleCycle
  /\ raised = FALSE
  /\ send = SendIdle
  /\ zone = ZoneIdle
  /\ call \in {DurationCall("format", n, <<>>) : n \in 0..MaxSeconds}
              \cup {DurationCall("parse", 0, str) : str \in DurationStrings}
  /\ scan = ScanIdle

FormatDurationCall ==
  /\ call.pc = "called"
  /\ call.op = "format"
  /\ call' = [call EXCEPT !.pc = "formatted",
                          !.duration_str = FormatDuration(call.seconds)]
  /\ UNCHANGED <<speaker_ips, speakers, data, entities, cycle, raised, send,
                 zone, scan>>

ParseDurationCall ==
  /\ \/ call.pc = "formatted"
     \/ call.pc = "called" /\ call.op = "parse"
  /\ call' = [call EXCEPT !.pc = "parsed",
                          !.parsed = ParseDuration(call.duration_str)]
  /\ UNCHANGED <<speaker_ips, speakers, data, entities, cycle, raised, send,
                 zone, scan>>

NextDuration == FormatDurationCall \/ ParseDurationCall

SpecDuration == InitDuration /\ [][NextDuration]_vars

\* The seconds the strings given directly stand for; 0 for every string
\* that is empty, has a part that is not a number, or has 1 or 4 parts.
SecondsOf(str) ==
    CASE str = <<"0", ":", "0", "3", ":", "4", "5">> -> 225
      [] str = <<"3", ":", "4", "5">> -> 225
      [] str = <<"1", ":", "0", "0", ":", "0", "0">> -> 3600
      [] str = <<"0", ":", "6", "0">> -> 60
      [] OTHER -> 0

\* C27: parsing the formatted duration of n gives n for every n from 0 to
\* 359999; parsing gives 0 for the empty string, a string with a part that
\* is not a number and a string without 2 or 3 parts; "0:03:45" parses to
\* 225.
C27_DurationRoundTrip ==
  call.pc = "parsed" =>
    /\ call.op = "format" => call.parsed = call.seconds
    /\ call.op = "parse" => call.parsed = SecondsOf(call.duration_str)

\* 225 seconds were formatted as "0:03:45" and parsed back to 225.
C27_Witness ==
  /\ call.pc = "parsed"
  /\ call.op = "format"
  /\ call.seconds = 225
  /\ call.duration_str = <<"0", ":", "0", "3", ":", "4", "5">>
  /\ call.parsed = 225

\* ------------------------------------------------- merging the partials
\* speaker_info.update(result) of _update_speaker, on dicts with every key
\* the descriptor fetch and the six sub-queries write.  A value names the
\* query that wrote it.

\* The number of merges followed (the six results and one more).
MaxMerges == 7

\* The order in which _update_speaker hands the sub-queries to gather.
QueryOrder ==
  <<"transport", "position", "volume", "eq", "device_settings", "zone_group">>

\* The keys of the dict get_speaker_info returns.
DescriptorFields ==
  {"ip_address", "port", "status_available", "zone_name", "model_name",
   "model_number", "serial_number", "software_version", "hardware_version",
   "mac_address", "household_id", "udn", "uuid"}

\* Mutant of FieldsOf: the eq query writes the volume too.
FieldsOfEqWritesVolume(q) ==
  CASE q = "transport"       -> {"transport_state", "transport_status",
                                 "shuffle", "repeat", "repeat_one",
                                 "crossfade"}
    [] q = "position"        -> {"track_number", "track_duration",
                                 "track_position", "track_uri", "track_title",
                                 "track_artist", "track_album",
                                 "album_art_uri"}
    [] q = "volume"          -> {"volume", "mute"}
    [] q = "eq"              -> {"bass", "treble", "loudness", "night_mode",
                                 "speech_enhancement", "volume"}
    [] q = "device_settings" -> {"status_light", "touch_controls"}
    [] q = "zone_group"      -> {"group_members", "is_coordinator"}

\* The keys each sub-query writes into the dict it returns.
FieldsOf(q) ==
  CASE q = "transport"       -> {"transport_state", "transport_status",
                                 "shuffle", "repeat", "repeat_one",
                                 "crossfade"}
    [] q = "position"        -> {"track_number", "track_duration",
                                 "track_position", "track_uri", "track_title",
                                 "track_artist", "track_album",
                                 "album_art_uri"}
    [] q = "volume"          -> {"volume", "mute"}
    [] q = "eq"              -> {"bass", "treble", "loudness", "night_mode",
                                 "speech_enhancement"}
    [] q = "device_settings" -> {"status_light", "touch_controls"}
    [] q = "zone_group"      -> {"group_members", "is_coordinator"}

\* The dict a sub-query returned: every key holds the query's name.
PartialResult(q) == [k \in FieldsOf(q) |-> q]

\* dict.update
DictUpdate(info, result) ==
  [k \in DOMAIN info \cup DOMAIN result |->
     IF k \in DOMAIN result THEN result[k] ELSE info[k]]

\* for result in results: if isinstance(result, dict): update -- over the
\* results from place i on that are in the set qs.
RECURSIVE MergeInOrder(_, _, _, _)
MergeInOrder(info, results, qs, i) ==
  IF i > Len(QueryOrder) THEN info
  ELSE LET q == QueryOrder[i]
       IN MergeInOrder(IF q \in qs /\ results[q] = "dict"
                         THEN DictUpdate(info, PartialResult(q)) ELSE info,
                       results, qs, i + 1)

DescriptorInfo == [k \in DescriptorFields |-> "descriptor"]

MergeCall(results) ==
  [pc |-> "merging", op |-> "merge", results |-> results,
   speaker_info |-> DescriptorInfo, merged |-> {}, last |-> "none",
   merges |-> 0]

InitMerge ==
  /\ speaker_ips = <<>>
  /\ speakers = EmptyMap
  /\ data = "None"
  /\ entities = {}
  /\ cycle = IdleCycle
  /\ raised = FALSE
  /\ send = SendIdle
  /\ zone = ZoneIdle
  /\ call \in {MergeCall(results) :
                 results \in [SubQueries -> {"dict", "exception"}]}
  /\ scan = ScanIdle

\* One turn of the loop over the results, for the result of q.
MergeResult(q) ==
  /\ call.pc = "merging"
  /\ call.merges < MaxMerges
  /\ call' = [call EXCEPT
                !.speaker_info = IF call.results[q] = "dict"
                                   THEN DictUpdate(@, PartialResult(q))
                                   ELSE @,
                !.merged = @ \cup {q},
                !.last = q,
                !.merges = @ + 1]
  /\ UNCHANGED <<speaker_ips, speakers, data, entities, cycle, raised, send,
                 zone, scan>>

NextMerge == \E q \in SubQueries : MergeResult(q)

SpecMerge == InitMerge /\ [][NextMerge]_vars

\* C28: however the partial results were merged, in any order and any of
\* them more than once, the snapshot is the one the merge in the order of
\* the gather gives; the key sets of the six sub-queries are pairwise
\* disjoint and disjoint from the keys of the descriptor.
C28_MergeOrderIsIrrelevant ==
  /\ call.speaker_info =
       MergeInOrder(DescriptorInfo, call.results, call.merged, 1)
  /\ \A p \in SubQueries :
       /\ FieldsOf(p) \cap DescriptorFields = {}
       /\ \A q \in SubQueries \ {p} : FieldsOf(p) \cap FieldsOf(q) = {}

\* All six results were merged, the last one merged being the first of the
\* gather, one of them twice, and the volume query and the eq query both
\* returned a dict.
C28_Witness ==
  /\ call.merged = SubQueries
  /\ call.merges = MaxMerges
  /\ call.last = "transport"
  /\ call.results["volume"] = "dict"
  /\ call.results["eq"] = "dict"
  /\ call.speaker_info["volume"] = "volume"
  /\ call.speaker_info["uuid"] = "descriptor"

\* ------------------------------------------------ requests in flight
\* The requests of one poll cycle.  get_speaker_info sends its requests on
\* the session of the cycle, whose connector holds at most PoolLimit
\* connections; send_upnp_command opens a session of its own for every
\* command.  A sub-query sends its commands one after the other, so it has
\* one request in flight from its start to its return.

\* The tracked devices of the cycle.
PoolDevices == 2

\* aiohttp.TCPConnector(limit=10)
PoolLimit == 10

PoolAddresses == 1..PoolDevices

PoolTask == [pc |-> "created", inflight |-> {}, result |-> "unset"]

PoolCall ==
  [pc |-> "gathering", op |-> "poll",
   tasks |-> [d \in PoolAddresses |-> PoolTask], peak |-> 0]

\* The requests in flight in the tasks ts: one per descriptor fetch and one
\* per running sub-query.
InFlight(ts) ==
  Cardinality({d \in DOMAIN ts : ts[d].pc = "descriptor"})
    + Cardinality({<<d, q>> \in (DOMAIN ts) \X SubQueries :
                     q \in ts[d].inflight})

Max(a, b) == IF a > b THEN a ELSE b

InitPool ==
  /\ speaker_ips = <<>>
  /\ speakers = EmptyMap
  /\ data = "None"
  /\ entities = {}
  /\ cycle = IdleCycle
  /\ raised = FALSE
  /\ send = SendIdle
  /\ zone = ZoneIdle
  /\ call = PoolCall
  /\ scan = ScanIdle

\* The requests of get_speaker_info wait for a connection of the pool.
PoolHasRoom(ts) ==
  Cardinality({d \in DOMAIN ts : ts[d].pc = "descriptor"}) < PoolLimit

\* aiohttp.ClientSession() of send_upnp_command: a connection is always
\* to be had.
CommandSession(ts) == TRUE

\* _update_speaker of d starts: get_speaker_info sends its request.
PoolFetch(d) ==
  /\ call.pc = "gathering"
  /\ call.tasks[d].pc = "created"
  /\ PoolHasRoom(call.tasks)
  /\ LET ts == [call.tasks EXCEPT ![d].pc = "descriptor"]
     IN call' = [call EXCEPT !.tasks = ts,
                             !.peak = Max(@, InFlight(ts))]
  /\ UNCHANGED <<speaker_ips, speakers, data, entities, cycle, raised, send,
                 zone, scan>>

\* get_speaker_info of d returns nothing: the task returns None.
PoolFetchFails(d) ==
  /\ call.pc = "gathering"
  /\ call.tasks[d].pc = "descriptor"
  /\ call' = [call EXCEPT !.tasks[d].pc = "returned",
                          !.tasks[d].result = "None"]
  /\ UNCHANGED <<speaker_ips, speakers, data, entities, cycle, raised, send,
                 zone, scan>>

\* get_speaker_info of d returns the descriptor: the six sub-queries are
\* gathered and each sends its first command.
PoolSubQueries(d) ==
  /\ call.pc = "gathering"
  /\ call.tasks[d].pc = "descriptor"
  /\ CommandSession([call.tasks EXCEPT ![d].pc = "subqueries"])
  /\ LET ts == [call.tasks EXCEPT ![d].pc = "subqueries",
                                  ![d].inflight = SubQueries]
     IN call' = [call EXCEPT !.tasks = ts,
                             !.peak = Max(@, InFlight(ts))]
  /\ UNCHANGED <<speaker_ips, speakers, data, entities, cycle, raised, send,
                 zone, scan>>

\* The last command of sub-query q of d is answered; the task returns with
\* the last of its sub-queries.
PoolSubQueryReturns(d, q) ==
  /\ call.pc = "gathering"
  /\ call.tasks[d].pc = "subqueries"
  /\ q \in call.tasks[d].inflight
  /\ call' = [call EXCEPT
                !.tasks[d].inflight = @ \ {q},
                !.tasks[d].pc = IF call.tasks[d].inflight = {q}
                                  THEN "returned" ELSE @,
                !.tasks[d].result = IF call.tasks[d].inflight = {q}
                                      THEN "dict" ELSE @]
  /\ UNCHANGED <<speaker_ips, speakers, data, entities, cycle, raised, send,
                 zone, scan>>

\* The gather returns.
PoolGathered ==
  /\ call.pc = "gathering"
  /\ \A d \in PoolAddresses : call.tasks[d].pc = "returned"
  /\ call' = [call EXCEPT !.pc = "merged"]
  /\ UNCHANGED <<speaker_ips, speakers, data, entities, cycle, raised, send,
                 zone, scan>>

NextPool ==
  \/ \E d \in PoolAddresses : PoolFetch(d)
  \/ \E d \in PoolAddresses : PoolFetchFails(d)
  \/ \E d \in PoolAddresses : PoolSubQueries(d)
  \/ \E d \in PoolAddresses, q \in SubQueries : PoolSubQueryReturns(d, q)
  \/ PoolGathered

SpecPool == InitPool /\ [][NextPool]_vars

\* C29: during a poll cycle the requests in flight, descriptor fetches and
\* commands of the sub-queries of all devices together, are never more than
\* the ceiling of the connection pool.
C29_RequestsWithinThePool ==
  call.op = "poll" => InFlight(call.tasks) <= PoolLimit

\* ------------------------------------------------ snapshots and addresses
\* C30: in every reachable state the snapshot stored under an address was
\* produced by polling that address (its ip_address is the address), also
\* when an address is tracked or untracked while a poll cycle waits for
\* its results.
C30_SnapshotsAreStoredUnderTheirAddress ==
  \A ip \in DOMAIN speakers : speakers[ip].ip_address = ip

\* ------------------------------------------ snapshots of tracked addresses
\* C31: whenever no poll cycle is in flight, only tracked addresses have a
\* snapshot and the tracked list holds no address twice; and the merge of
\* a cycle leaves no snapshot for an address of the cycle that was
\* untracked while the cycle was in flight.
C31_OnlyTrackedAddressesHaveSnapshots ==
  /\ [](cycle.pc # "polling" =>
          /\ DOMAIN speakers \subseteq Range(speaker_ips)
          /\ \A i, j \in 1..Len(speaker_ips) :
               speaker_ips[i] = speaker_ips[j] => i = j)
  /\ [][MergeStep =>
          \A ip \in Range(cycle.tasks) \ Range(speaker_ips) :
            ip \notin DOMAIN speakers']_vars

\* A cycle over 1 and 2 has completed after 1 was untracked while it was
\* in flight: what it fetched from 1 is stored, under 2, and 1 has no
\* snapshot.
C31_Witness ==
  /\ cycle.pc = "done"
  /\ speaker_ips = <<2>>
  /\ DOMAIN speakers = {2}
  /\ speakers[2].obs = "untracked"

\* ------------------------------------------------------ SOAP requests
\* The service name, action and control path every call of
\* send_upnp_command in the program passes, and the SOAPACTION header and
\* envelope namespace send_upnp_command builds from them.  A text is the
\* sequence of its parts.

UPNP_AV_TRANSPORT == "AVTransport"

UPNP_RENDERING_CONTROL == "RenderingControl"

UPNP_DEVICE_PROPERTIES == "DeviceProperties"

UPNP_GROUP_RENDERING_CONTROL == "GroupRenderingControl"

UPNP_CONTENT_DIRECTORY == "ContentDirectory"

UPNP_ZONE_GROUP_TOPOLOGY == "ZoneGroupTopology"

CONTROL_AV_TRANSPORT == "/MediaRenderer/AVTransport/Control"

CONTROL_RENDERING == "/MediaRenderer/RenderingControl/Control"

CONTROL_DEVICE_PROPERTIES == "/DeviceProperties/Control"

CONTROL_GROUP_RENDERING == "/MediaRenderer/GroupRenderingControl/Control"

CONTROL_CONTENT_DIRECTORY == "/MediaServer/ContentDirectory/Control"

CONTROL_ZONE_GROUP == "/ZoneGroupTopology/Control"

UrnPrefix == "urn:schemas-upnp-org:service:"

VersionSuffix == ":1"

\* The service argument of _get_zone_group_info.
ZoneTopologyService == <<UrnPrefix, "ZoneGroupTopology", VersionSuffix>>

Site(file, line, service, action, control_url) ==
  [file |-> file, line |-> line, service |-> service, action |-> action,
   control_url |-> control_url]

\* Every call of send_upnp_command, by the file and line it stands at.
CallSites ==
  {
   Site("__init__", 167, <<UPNP_AV_TRANSPORT>>,
        "SetAVTransportURI", CONTROL_AV_TRANSPORT),
   Site("__init__", 196, <<UPNP_AV_TRANSPORT>>,
        "BecomeCoordinatorOfStandaloneGroup", CONTROL_AV_TRANSPORT),
   Site("__init__", 220, <<UPNP_AV_TRANSPORT>>,
        "ConfigureSleepTimer", CONTROL_AV_TRANSPORT),
   Site("__init__", 234, <<UPNP_AV_TRANSPORT>>,
        "ConfigureSleepTimer", CONTROL_AV_TRANSPORT),
   Site("coordinator", 138, <<UPNP_AV_TRANSPORT>>,
        "GetTransportInfo", CONTROL_AV_TRANSPORT),
   Site("coordinator", 151, <<UPNP_AV_TRANSPORT>>,
        "GetTransportSettings", CONTROL_AV_TRANSPORT),
   Site("coordinator", 166, <<UPNP_AV_TRANSPORT>>,
        "GetCrossfadeMode", CONTROL_AV_TRANSPORT),
   Site("coordinator", 183, <<UPNP_AV_TRANSPORT>>,
        "GetPositionInfo", CONTROL_AV_TRANSPORT),
   Site("coordinator", 226, <<UPNP_RENDERING_CONTROL>>,
        "GetVolume", CONTROL_RENDERING),
   Site("coordinator", 238, <<UPNP_RENDERING_CONTROL>>,
        "GetMute", CONTROL_RENDERING),
   Site("coordinator", 256, <<UPNP_RENDERING_CONTROL>>,
        "GetBass", CONTROL_RENDERING),
   Site("coordinator", 267, <<UPNP_RENDERING_CONTROL>>,
        "GetTreble", CONTROL_RENDERING),
   Site("coordinator", 278, <<UPNP_RENDERING_CONTROL>>,
        "GetLoudness", CONTROL_RENDERING),
   Site("coordinator", 289, <<UPNP_RENDERING_CONTROL>>,
        "GetEQ", CONTROL_RENDERING),
   Site("coordinator", 300, <<UPNP_RENDERING_CONTROL>>,
        "GetEQ", CONTROL_RENDERING),
   Site("coordinator", 317, <<UPNP_DEVICE_PROPERTIES>>,
        "GetLEDState", CONTROL_DEVICE_PROPERTIES),
   Site("coordinator", 329, <<UPNP_DEVICE_PROPERTIES>>,
        "GetButtonLockState", CONTROL_DEVICE_PROPERTIES),
   Site("coordinator", 368, ZoneTopologyService,
        "GetZoneGroupState", "/ZoneGroupTopology/Control"),
   Site("media_player", 420, <<UPNP_AV_TRANSPORT>>,
        "SetPlayMode", CONTROL_AV_TRANSPORT),
   Site("media_player", 444, <<UPNP_AV_TRANSPORT>>,
        "SetPlayMode", CONTROL_AV_TRANSPORT),
   Site("media_player", 479, <<UPNP_AV_TRANSPORT>>,
        "SetAVTransportURI", CONTROL_AV_TRANSPORT),
   Site("media_player", 544, <<UPNP_AV_TRANSPORT>>,
        "SetAVTransportURI", CONTROL_AV_TRANSPORT),
   Site("media_player", 562, <<UPNP_AV_TRANSPORT>>,
        "BecomeCoordinatorOfStandaloneGroup", CONTROL_AV_TRANSPORT),
   Site("number", 131, <<UPNP_RENDERING_CONTROL>>,
        "SetBass", CONTROL_RENDERING),
   Site("number", 167, <<UPNP_RENDERING_CONTROL>>,
        "SetTreble", CONTROL_RENDERING),
   Site("number", 235, <<UPNP_RENDERING_CONTROL>>,
        "SetVolume", CONTROL_RENDERING),
   Site("number", 244, <<UPNP_RENDERING_CONTROL>>,
        "SetVolume", CONTROL_RENDERING),
   Site("switch", 138, <<UPNP_AV_TRANSPORT>>,
        "SetCrossfadeMode", CONTROL_AV_TRANSPORT),
   Site("switch", 151, <<UPNP_AV_TRANSPORT>>,
        "SetCrossfadeMode", CONTROL_AV_TRANSPORT),
   Site("switch", 185, <<UPNP_RENDERING_CONTROL>>,
        "SetLoudness", CONTROL_RENDERING),
   Site("switch", 198, <<UPNP_RENDERING_CONTROL>>,
        "SetLoudness", CONTROL_RENDERING),
   Site("switch", 232, <<UPNP_DEVICE_PROPERTIES>>,
        "SetLEDState", CONTROL_DEVICE_PROPERTIES),
   Site("switch", 245, <<UPNP_DEVICE_PROPERTIES>>,
        "SetLEDState", CONTROL_DEVICE_PROPERTIES),
   Site("switch", 279, <<UPNP_DEVICE_PROPERTIES>>,
        "SetButtonLockState", CONTROL_DEVICE_PROPERTIES),
   Site("switch", 292, <<UPNP_DEVICE_PROPERTIES>>,
        "SetButtonLockState", CONTROL_DEVICE_PROPERTIES),
   Site("switch", 328, <<UPNP_RENDERING_CONTROL>>,
        "SetEQ", CONTROL_RENDERING),
   Site("switch", 341, <<UPNP_RENDERING_CONTROL>>,
        "SetEQ", CONTROL_RENDERING),
   Site("switch", 377, <<UPNP_RENDERING_CONTROL>>,
        "SetEQ", CONTROL_RENDERING),
   Site("switch", 390, <<UPNP_RENDERING_CONTROL>>,
        "SetEQ", CONTROL_RENDERING)
  }

\* The SOAPACTION header, without its quotes.
SoapAction(service, action) ==
  <<UrnPrefix>> \o service \o <<VersionSuffix, "#", action>>

\* xmlns:u of the envelope.
Namespace(service) == <<UrnPrefix>> \o service \o <<VersionSuffix>>

RequestCall(site, ip) ==
  [pc |-> "called", site |-> site, ip |-> ip, soapaction |-> <<>>,
   namespace |-> <<>>, element |-> ""]

InitRequest ==
  /\ speaker_ips = <<>>
  /\ speakers = EmptyMap
  /\ data = "None"
  /\ entities = {}
  /\ cycle = IdleCycle
  /\ raised = FALSE
  /\ send \in {RequestCall(site, ip) : site \in CallSites, ip \in IPs}
  /\ zone = ZoneIdle
  /\ call = CallIdle
  /\ scan = ScanIdle

\* send_upnp_command up to session.post: the body and the headers.
BuildRequest ==
  /\ send.pc = "called"
  /\ send' = [send EXCEPT
                !.pc = "posting",
                !.soapaction = SoapAction(send.site.service, send.site.action),
                !.namespace = Namespace(send.site.service),
                !.element = send.site.action]
  /\ UNCHANGED <<speaker_ips, speakers, data, entities, cycle, raised, zone,
                 call, scan>>

NextRequest == BuildRequest

SpecRequest == InitRequest /\ [][NextRequest]_vars

\* The bare logical service names and the fixed control path of each.
ControlPathOf(name) ==
  CASE name = UPNP_AV_TRANSPORT -> CONTROL_AV_TRANSPORT
    [] name = UPNP_RENDERING_CONTROL -> CONTROL_RENDERING
    [] name = UPNP_DEVICE_PROPERTIES -> CONTROL_DEVICE_PROPERTIES
    [] name = UPNP_GROUP_RENDERING_CONTROL -> CONTROL_GROUP_RENDERING
    [] name = UPNP_CONTENT_DIRECTORY -> CONTROL_CONTENT_DIRECTORY
    [] name = UPNP_ZONE_GROUP_TOPOLOGY -> CONTROL_ZONE_GROUP

ServiceNames ==
  {UPNP_AV_TRANSPORT, UPNP_RENDERING_CONTROL, UPNP_DEVICE_PROPERTIES,
   UPNP_GROUP_RENDERING_CONTROL, UPNP_CONTENT_DIRECTORY,
   UPNP_ZONE_GROUP_TOPOLOGY}

CountOf(part, text) == Cardinality({k \in DOMAIN text : text[k] = part})

\* C32: for every command sent, the service given to send_upnp_command is a
\* bare service name and the control path is the path of that service, so
\* the SOAPACTION header is the urn prefix, the name, ":1", "#" and the
\* action, with the prefix and the ":1" once each, and the namespace of the
\* envelope is built from the same service and action.
C32_ServiceNamesAreBare ==
  send.pc = "posting" =>
    \E name \in ServiceNames :
      /\ send.site.service = <<name>>
      /\ send.site.control_url = ControlPathOf(name)
      /\ send.soapaction =
           <<UrnPrefix, name, VersionSuffix, "#", send.site.action>>
      /\ CountOf(UrnPrefix, send.soapaction) = 1
      /\ CountOf(VersionSuffix, send.soapaction) = 1
      /\ send.namespace = <<UrnPrefix, name, VersionSuffix>>
      /\ send.element = send.site.action

\* ------------------------------------------------------------ play modes
\* The play mode of a device as _get_transport_info reads it, as
\* async_set_shuffle and async_set_repeat build it from the snapshot, and
\* as the media player presents it.  A play mode is the sequence of its
\* characters.

NORMAL ==
  <<"N", "O", "R", "M", "A", "L">>

REPEAT_ALL ==
  <<"R", "E", "P", "E", "A", "T", "_", "A", "L", "L">>

REPEAT_ONE ==
  <<"R", "E", "P", "E", "A", "T", "_", "O", "N", "E">>

SHUFFLE_NOREPEAT ==
  <<"S", "H", "U", "F", "F", "L", "E", "_", "N", "O", "R", "E", "P", "E", "A", "T">>

SHUFFLE_REPEAT_ALL ==
  <<"S", "H", "U", "F", "F", "L", "E", "_", "R", "E", "P", "E", "A", "T", "_", "A", "L", "L">>

SHUFFLE_REPEAT_ONE ==
  <<"S", "H", "U", "F", "F", "L", "E", "_", "R", "E", "P", "E", "A", "T", "_", "O", "N", "E">>

PlayModes ==
  {NORMAL, REPEAT_ALL, REPEAT_ONE, SHUFFLE_NOREPEAT, SHUFFLE_REPEAT_ALL,
   SHUFFLE_REPEAT_ONE}

\* RepeatMode.OFF, RepeatMode.ALL, RepeatMode.ONE
RepeatModes == {"off", "all", "one"}

\* word in text
In(word, text) ==
  \E k \in 0..(Len(text) - Len(word)) :
    \A j \in 1..Len(word) : text[k + j] = word[j]

\* The three fields _get_transport_info derives from the PlayMode value.
PlayModeFields(play_mode) ==
  [shuffle    |-> In(<<"S", "H", "U", "F", "F", "L", "E">>, play_mode),
   repeat     |-> In(<<"R", "E", "P", "E", "A", "T">>, play_mode),
   repeat_one |-> play_mode = REPEAT_ONE]

\* async_set_shuffle: the play mode built from the snapshot.
ShufflePlayMode(d, shuffle) ==
  IF d.repeat_one
    THEN IF shuffle THEN SHUFFLE_REPEAT_ONE ELSE REPEAT_ONE
  ELSE IF d.repeat
    THEN IF shuffle THEN SHUFFLE_REPEAT_ALL ELSE REPEAT_ALL
  ELSE IF shuffle THEN SHUFFLE_NOREPEAT ELSE NORMAL

\* async_set_repeat: the play mode built from the snapshot.
RepeatPlayMode(d, repeat) ==
  IF repeat = "one"
    THEN IF d.shuffle THEN SHUFFLE_REPEAT_ONE ELSE REPEAT_ONE
  ELSE IF repeat = "all"
    THEN IF d.shuffle THEN SHUFFLE_REPEAT_ALL ELSE REPEAT_ALL
  ELSE IF d.shuffle THEN SHUFFLE_NOREPEAT ELSE NORMAL

\* The repeat property of the media player.
PresentedRepeat(d) ==
  IF d.repeat_one THEN "one" ELSE IF d.repeat THEN "all" ELSE "off"

PlayModeCall(mode) ==
  [pc |-> "polling", op |-> "none", mode |-> mode, read |-> mode,
   speaker_data |-> PlayModeFields(NORMAL), shuffle |-> FALSE,
   repeat |-> "off", via |-> "none", sent |-> NORMAL]

InitPlayMode ==
  /\ speaker_ips = <<>>
  /\ speakers = EmptyMap
  /\ data = "None"
  /\ entities = {}
  /\ cycle = IdleCycle
  /\ raised = FALSE
  /\ send = SendIdle
  /\ zone = ZoneIdle
  /\ call \in {PlayModeCall(mode) : mode \in PlayModes}
  /\ scan = ScanIdle

\* A successful poll: GetTransportSettings answers the mode of the device.
PlayModePolled ==
  /\ call.pc \in {"polling", "set"}
  /\ call' = [call EXCEPT
                !.pc = IF call.pc = "polling" THEN "polled" ELSE "repolled",
                !.speaker_data = PlayModeFields(call.mode)]
  /\ UNCHANGED <<speaker_ips, speakers, data, entities, cycle, raised, send,
                 zone, scan>>

\* The device takes the play mode, through SoCo or, when SoCo raises,
\* through SetPlayMode.
PlayModeSent(op, shuffle, repeat, via, play_mode) ==
  call' = [call EXCEPT !.pc = "set", !.op = op, !.read = call.mode,
                       !.shuffle = shuffle, !.repeat = repeat, !.via = via,
                       !.sent = play_mode, !.mode = play_mode]

\* async_set_shuffle(shuffle)
SetShuffle(shuffle, via) ==
  /\ call.pc = "polled"
  /\ PlayModeSent("set_shuffle", shuffle, "off", via,
                  ShufflePlayMode(call.speaker_data, shuffle))
  /\ UNCHANGED <<speaker_ips, speakers, data, entities, cycle, raised, send,
                 zone, scan>>

\* async_set_repeat(repeat)
SetRepeat(repeat, via) ==
  /\ call.pc = "polled"
  /\ PlayModeSent("set_repeat", FALSE, repeat, via,
                  RepeatPlayMode(call.speaker_data, repeat))
  /\ UNCHANGED <<speaker_ips, speakers, data, entities, cycle, raised, send,
                 zone, scan>>

NextPlayMode ==
  \/ PlayModePolled
  \/ \E shuffle \in BOOLEAN, via \in {"soco", "upnp"} :
       SetShuffle(shuffle, via)
  \/ \E repeat \in RepeatModes, via \in {"soco", "upnp"} :
       SetRepeat(repeat, via)

SpecPlayMode == InitPlayMode /\ [][NextPlayMode]_vars

\* The two components of a play mode.
ShuffleOf(play_mode) ==
  play_mode \in {SHUFFLE_NOREPEAT, SHUFFLE_REPEAT_ALL, SHUFFLE_REPEAT_ONE}

RepeatOf(play_mode) ==
  IF play_mode \in {REPEAT_ONE, SHUFFLE_REPEAT_ONE} THEN "one"
  ELSE IF play_mode \in {REPEAT_ALL, SHUFFLE_REPEAT_ALL} THEN "all"
  ELSE "off"

\* C33: after a poll that read play mode m, set_shuffle sends a play mode
\* with the repeat component of m and set_repeat sends one with the shuffle
\* component of m; after the next successful poll the repeat mode presented
\* is the one set, and the shuffle flag presented is the one set.
C33_ShuffleAndRepeatAreIndependent ==
  /\ call.pc \in {"set", "repolled"} /\ call.op = "set_shuffle" =>
       RepeatOf(call.sent) = RepeatOf(call.read)
  /\ call.pc \in {"set", "repolled"} /\ call.op = "set_repeat" =>
       ShuffleOf(call.sent) = ShuffleOf(call.read)
  /\ call.pc = "repolled" /\ call.op = "set_repeat" =>
       PresentedRepeat(call.speaker_data) = call.repeat
  /\ call.pc = "repolled" /\ call.op = "set_shuffle" =>
       call.speaker_data.shuffle = call.shuffle

\* ------------------------------------------------------- track titles
\* The title and artist _get_position_info stores and the title the media
\* player presents.  A text is the sequence of its characters; a value that
\* may be None is a record with a none flag.

NoneText == [none |-> TRUE, text |-> <<>>]

Text(t) == [none |-> FALSE, text |-> t]

\* Python truthiness of an optional string.
Truthy(v) == ~v.none /\ v.text # <<>>

\* a or b
Or(a, b) == IF Truthy(a) THEN a ELSE b

NoUri ==
  <<>>

FileUri ==
  <<"x", "-", "f", "i", "l", "e", "-", "c", "i", "f", "s", ":", "/", "/",
    "a">>

HttpUri ==
  <<"h", "t", "t", "p", ":", "/", "/", "r", "/", "s">>

RadioUri ==
  <<"x", "-", "r", "i", "n", "c", "o", "n", "-", "m", "p", "3", "r", "a",
    "d", "i", "o", ":", "/", "/", "r">>

StreamUri ==
  <<"x", "-", "s", "o", "n", "o", "s", "a", "p", "i", "-", "s", "t", "r",
    "e", "a", "m", ":", "s">>

ServiceUri ==
  <<"x", "-", "s", "o", "n", "o", "s", "-", "h", "t", "t", "p", ":", "t">>

TrackUris == {NoUri, FileUri, HttpUri, RadioUri, StreamUri, ServiceUri}

\* uri.startswith(prefix)
StartsWith(uri, prefix) ==
  Len(prefix) <= Len(uri) /\ \A k \in 1..Len(prefix) : uri[k] = prefix[k]

\* "http" in track_uri or "x-rincon-mp3radio" in track_uri or
\* "x-sonosapi-stream" in track_uri
IndicatesStream(track_uri) ==
  \/ In(<<"h", "t", "t", "p">>, track_uri)
  \/ In(<<"x", "-", "r", "i", "n", "c", "o", "n", "-", "m", "p", "3", "r",
          "a", "d", "i", "o">>, track_uri)
  \/ In(<<"x", "-", "s", "o", "n", "o", "s", "a", "p", "i", "-", "s", "t",
          "r", "e", "a", "m">>, track_uri)

\* The texts a field of the metadata may hold: None, empty, or a text.
FieldValues(t) == {NoneText, Text(<<>>), Text(t)}

\* The DIDL metadata of a response, parsed: parse_didl_metadata.
Metadatas ==
  [title : FieldValues(<<"S", "o", "n", "g">>),
   artist : FieldValues(<<"B", "a", "n", "d">>),
   stream_content : FieldValues(<<"N", "e", "w", "s">>),
   radio_show : FieldValues(<<"S", "h", "o", "w">>)]

NoMetadata ==
  [title |-> NoneText, artist |-> NoneText, stream_content |-> NoneText,
   radio_show |-> NoneText]

\* A GetPositionInfo response: its TrackURI, its StreamContent element,
\* whether it has TrackMetaData, and what that parses to.
PositionResponses ==
  {[track_uri |-> u, stream |-> s, has_metadata |-> TRUE, metadata |-> m] :
     u \in TrackUris, s \in {NoneText, Text(<<"O", "n", " ", "a", "i", "r">>)},
     m \in Metadatas}
  \cup
  {[track_uri |-> u, stream |-> s, has_metadata |-> FALSE,
    metadata |-> NoMetadata] :
     u \in TrackUris, s \in {NoneText, Text(<<"O", "n", " ", "a", "i", "r">>)}}

\* The fallback applies: no title and the URI indicates a stream.
Fallback(r) == ~Truthy(r.metadata.title) /\ IndicatesStream(r.track_uri)

\* Mutant of TrackTitle: the stream content replaces a title that is
\* present as well.
TrackTitleStreamFirst(r) ==
  LET stream_info == Or(r.stream, r.metadata.stream_content)
  IN IF IndicatesStream(r.track_uri) /\ Truthy(stream_info)
       THEN stream_info ELSE r.metadata.title

\* data["track_title"] of _get_position_info, for a response with
\* metadata.
TrackTitle(r) ==
  LET stream_info == Or(r.stream, r.metadata.stream_content)
  IN IF Fallback(r) /\ Truthy(stream_info)
       THEN stream_info ELSE r.metadata.title

\* data["track_artist"]; extract_xml_value(metadata_raw, "r:streamContent")
\* finds nothing, the TrackMetaData value holding no "<".
TrackArtist(r) ==
  LET radio_show == Or(r.metadata.radio_show, NoneText)
  IN IF Fallback(r) /\ Truthy(radio_show) /\ ~Truthy(r.metadata.artist)
       THEN radio_show ELSE r.metadata.artist

\* The position part of the snapshot: the keys it has and their values.
PositionInfo(r) ==
  [track_uri |-> r.track_uri,
   has_title |-> r.has_metadata,
   track_title |-> IF r.has_metadata THEN TrackTitle(r) ELSE NoneText,
   track_artist |-> IF r.has_metadata THEN TrackArtist(r) ELSE NoneText]

\* media_title: self._speaker_data.get("track_title"), and None for no
\* title.
MediaTitle(d) ==
  LET title == d.track_title
  IN IF ~Truthy(title) /\ d.track_uri # <<>>
        /\ \E prefix \in {<<"h", "t", "t", "p", ":", "/", "/">>,
                          <<"h", "t", "t", "p", "s", ":", "/", "/">>,
                          <<"x", "-", "r", "i", "n", "c", "o", "n">>,
                          <<"x", "-", "s", "o", "n", "o", "s">>} :
             StartsWith(d.track_uri, prefix)
       THEN NoneText ELSE title

TitleCall(response) ==
  [pc |-> "polling", op |-> "media_title", response |-> response,
   speaker_data |-> PositionInfo([response EXCEPT !.has_metadata = FALSE]),
   media_title |-> NoneText]

InitTitle ==
  /\ speaker_ips = <<>>
  /\ speakers = EmptyMap
  /\ data = "None"
  /\ entities = {}
  /\ cycle = IdleCycle
  /\ raised = FALSE
  /\ send = SendIdle
  /\ zone = ZoneIdle
  /\ call \in {TitleCall(response) : response \in PositionResponses}
  /\ scan = ScanIdle

\* _get_position_info on a successful GetPositionInfo.
TitlePolled ==
  /\ call.pc = "polling"
  /\ call' = [call EXCEPT !.pc = "polled",
                          !.speaker_data = PositionInfo(call.response)]
  /\ UNCHANGED <<speaker_ips, speakers, data, entities, cycle, raised, send,
                 zone, scan>>

\* The media_title property is read.
TitleRead ==
  /\ call.pc = "polled"
  /\ call' = [call EXCEPT !.pc = "presented",
                          !.media_title = MediaTitle(call.speaker_data)]
  /\ UNCHANGED <<speaker_ips, speakers, data, entities, cycle, raised, send,
                 zone, scan>>

NextTitle == TitlePolled \/ TitleRead

SpecTitle == InitTitle /\ [][NextTitle]_vars

\* The URIs that indicate a stream.
StreamUris == {HttpUri, RadioUri, StreamUri, ServiceUri}

\* The stream-content value of a response.
StreamContentOf(r) ==
  IF ~r.stream.none /\ r.stream.text # <<>> THEN r.stream
  ELSE r.metadata.stream_content

\* C34: a structured title that is present is never replaced; when the
\* metadata yields no title and the URI indicates a stream, the title is
\* the stream-content value if that is not empty and else stays as absent
\* as it was, and the artist is the radio-show value only if no artist is
\* present; the title presented is never the content URI.
C34_TitleFallback ==
  LET r == call.response
      d == call.speaker_data
      present(v) == ~v.none /\ v.text # <<>>
  IN /\ call.pc \in {"polled", "presented"} /\ r.has_metadata =>
          /\ present(r.metadata.title) => d.track_title = r.metadata.title
          /\ ~present(r.metadata.title) /\ r.track_uri \in StreamUris =>
               /\ d.track_title = IF present(StreamContentOf(r))
                                    THEN StreamContentOf(r)
                                    ELSE r.metadata.title
               /\ d.track_artist = IF present(r.metadata.artist)
                                     THEN r.metadata.artist
                                   ELSE IF present(r.metadata.radio_show)
                                     THEN r.metadata.radio_show
                                   ELSE r.metadata.artist
          /\ d.track_artist # r.metadata.artist => ~present(r.metadata.artist)
     /\ call.pc = "presented" =>
          /\ present(call.media_title) => call.media_title = d.track_title
          /\ call.media_title.none \/ call.media_title.text = <<>>
               \/ call.media_title.text # r.track_uri

\* The metadata had no title and no artist, the URI is a radio URI: the
\* title presented is the stream content and the artist the radio show.
C34_Witness ==
  /\ call.pc = "presented"
  /\ call.response.has_metadata
  /\ call.response.metadata.title = NoneText
  /\ call.response.metadata.artist = NoneText
  /\ call.response.track_uri = RadioUri
  /\ call.response.stream = NoneText
  /\ call.media_title = Text(<<"N", "e", "w", "s">>)
  /\ call.speaker_data.track_artist = Text(<<"S", "h", "o", "w">>)

\* ---------------------------------------- the identifier of the resolution
\* The polls of one tracked address (address 1, device "X") over several
\* cycles: _get_zone_group_info reads the uuid from self._speakers when the
\* answer to GetZoneGroupState is there, self._speakers is replaced when a
\* cycle ends, and async_remove_speaker and async_add_speaker change it in
\* between.

\* The successful cycles counted.
MaxResolveCycles == 2

\* The topologies answered: no block or one.
ResolveTopologies == {gs \in GroupLists : Len(gs) <= 1}

\* uuid: the uuid self._speakers holds for the address ("" for no
\* snapshot); before: the same when the cycle in flight started; first:
\* no successful cycle has ended yet and the address was never added by
\* async_add_speaker.
ResolveIdle ==
  [pc |-> "idle", ip |-> AddressOf("X"), tracked |-> TRUE, uuid |-> "",
   before |-> "", added |-> FALSE, successes |-> 0, desc |-> "none",
   result |-> DefaultGroup]

InitResolve ==
  /\ speaker_ips = <<>>
  /\ speakers = EmptyMap
  /\ data = "None"
  /\ entities = {}
  /\ cycle = IdleCycle
  /\ raised = FALSE
  /\ send = SendIdle
  /\ zone = ResolveIdle
  /\ call = CallIdle
  /\ scan = ScanIdle

\* _async_update_data up to the gather.
ResolveStart ==
  /\ zone.pc \in {"idle", "done"}
  /\ zone.tracked
  /\ zone' = [zone EXCEPT !.pc = "polling", !.before = zone.uuid,
                          !.desc = "none", !.result = DefaultGroup]
  /\ UNCHANGED <<speaker_ips, speakers, data, entities, cycle, raised, send,
                 call, scan>>

\* Mutant of HeldUuid: the uuid the snapshot held when the cycle started.
HeldUuidBefore(z) == z.before

\* speaker_info.get("uuid") of the entry of self._speakers for the address.
HeldUuid(z) == z.uuid

\* _update_speaker of the address: the descriptor fetch fails, or it
\* succeeds and the topology is answered.
ResolvePolled ==
  /\ zone.pc = "polling"
  /\ \/ zone' = [zone EXCEPT !.pc = "polled", !.desc = "none"]
     \/ \E answer \in {"failed", "no_state", "state"}, wrapped \in BOOLEAN,
           groups \in ResolveTopologies :
          zone' = [zone EXCEPT
                     !.pc = "polled", !.desc = "ok",
                     !.result = GetZoneGroupInfo(answer, wrapped, groups,
                                                 HeldUuid(zone), zone.ip)]
  /\ UNCHANGED <<speaker_ips, speakers, data, entities, cycle, raised, send,
                 call, scan>>

\* The merge loop and self._speakers = speakers_data, for a list that holds
\* the address at the place it had, or does not hold it.
ResolveMerged ==
  /\ zone.pc = "polled"
  /\ zone' = [zone EXCEPT
                !.pc = "done",
                !.uuid = IF ~zone.tracked THEN ""
                         ELSE IF zone.desc = "ok" THEN "X" ELSE @,
                !.successes = IF zone.tracked /\ zone.desc = "ok"
                                THEN Min(@ + 1, MaxResolveCycles) ELSE @]
  /\ UNCHANGED <<speaker_ips, speakers, data, entities, cycle, raised, send,
                 call, scan>>

\* async_remove_speaker(ip)
ResolveUntrack ==
  /\ zone.pc # "idle"
  /\ zone.tracked
  /\ zone' = [zone EXCEPT !.tracked = FALSE, !.uuid = ""]
  /\ UNCHANGED <<speaker_ips, speakers, data, entities, cycle, raised, send,
                 call, scan>>

\* async_add_speaker(ip, speaker_info) with the descriptor validate_sonos_ip
\* fetched.
ResolveTrack ==
  /\ zone.pc # "idle"
  /\ ~zone.tracked
  /\ zone' = [zone EXCEPT !.tracked = TRUE, !.uuid = "X", !.added = TRUE]
  /\ UNCHANGED <<speaker_ips, speakers, data, entities, cycle, raised, send,
                 call, scan>>

NextResolve ==
  \/ ResolveStart
  \/ ResolvePolled
  \/ ResolveMerged
  \/ ResolveUntrack
  \/ ResolveTrack

SpecResolve == InitResolve /\ [][NextResolve]_vars

DecidedAvailable(i) == cycle.results[i].desc = "ok"

\* C36: the availability of a device after a cycle is decided only by its
\* descriptor fetch in that cycle.  For every address polled in the cycle
\* and tracked when the cycle completes: if its descriptor fetch succeeded
\* its snapshot is available, whichever commands were answered; if the
\* fetch failed no command was sent to it and it is not available.
C36_AvailabilityFollowsTheDescriptorFetch ==
  [][MergeStep =>
       \A i \in 1..Len(cycle.tasks) :
         LET ip == cycle.tasks[i]
             t  == StateOf(speaker_ips', speakers', ip)
         IN  Tracked(ip) =>
               /\ DecidedAvailable(i) => t = "Available"
               /\ ~DecidedAvailable(i) =>
                    /\ cycle.results[i].ok = {}
                    /\ t # "Available"]_vars

\* ------------------------------------------------- the two group fields
\* The keys of the dict _get_zone_group_info returns, which _update_speaker
\* merges into the snapshot.
GroupFields == {"group_members", "is_coordinator"}

\* C37: the group result of a poll has both group fields; a coordinator
\* flag of false comes with a non-empty member list that is the member list
\* of a block in which a member has the device's identifier or address; an
\* empty member list comes with a coordinator flag of true.
C37_GroupFieldsAreConsistent ==
  zone.pc = "returned" =>
    /\ DOMAIN zone.result = GroupFields
    /\ ~zone.result.is_coordinator =>
         /\ zone.result.group_members # <<>>
         /\ \E i \in BlocksOf(zone.groups, zone.uuid, zone.ip) :
              zone.result = Resolved(zone.groups[i], zone.uuid)
    /\ zone.result.group_members = <<>> => zone.result.is_coordinator

\* C37 witness: a device whose identifier is in no block is found by its
\* address in the block coordinated by another device; the result has the
\* two members of that block and a coordinator flag of false.
C37_Witness ==
  /\ zone.pc = "returned"
  /\ zone.answer = "state" /\ ~zone.wrapped
  /\ zone.uuid = "X" /\ zone.ip = AddressOf("Y")
  /\ zone.groups = <<[coordinator |-> "Z", members |-> <<"Z", "Y">>]>>
  /\ zone.result = [group_members |-> <<AddressOf("Z"), AddressOf("Y")>>,
                    is_coordinator |-> FALSE]

\* ------------------------------------------------- the soundbar switches
\* The poll cycles of one device that answers any subset of the commands of
\* the eq sub-query, and the availability its soundbar switches report.

\* key= of SonosNightModeSwitch and SonosSpeechEnhancementSwitch.
SoundbarFields == {"night_mode", "speech_enhancement"}

\* The commands a device answers: all but some of the eq sub-query.
EqOutcomes ==
  {(Commands \ CommandsOf("eq")) \cup e : e \in SUBSET CommandsOf("eq")}

SwitchPolled(i) == PollWith(i, EqOutcomes, PolledVolumes)

NextSwitch ==
  \/ CycleStart
  \/ \E i \in 1..NumIps : SwitchPolled(i)
  \/ CycleComplete

SpecSwitch == InitPoll /\ [][NextSwitch]_vars

\* SonosBaseSwitch._speaker_data: coordinator.data.get(ip, {}) when
\* coordinator.data is truthy, {} otherwise.
SpeakerData(ip) ==
  IF data = "Alias" /\ ip \in DOMAIN speakers THEN speakers[ip] ELSE NullSnap

\* Mutant of SwitchAvailable: the switch does not look for its key.
SwitchAvailableAnyKey(ip, key) ==
  "available" \in SpeakerData(ip).keys /\ SpeakerData(ip).available

\* SonosBaseSwitch.available
SwitchAvailable(ip, key) ==
  IF key \notin SpeakerData(ip).keys THEN FALSE
  ELSE "available" \in SpeakerData(ip).keys /\ SpeakerData(ip).available

CycleDevices == 1

LiveAddresses == 1..CycleDevices

\* get_speaker_info(session, ip, timeout=5)
DescriptorTimeoutSeconds == 5

\* send_upnp_command(..., timeout: int = 10); no caller passes a timeout.
CommandTimeoutSeconds == 10

\* aiohttp.ClientTimeout(total=total): the set of the deadlines of a
\* request; the empty set is a request without timeout.
ClientTimeout(total) == {total}

\* session.get(..., timeout=aiohttp.ClientTimeout(total=timeout))
DescriptorTimeout == ClientTimeout(DescriptorTimeoutSeconds)

\* Mutant of CommandTimeout: the command is posted without a timeout.
CommandTimeoutUnset == {}

\* session.post(..., timeout=aiohttp.ClientTimeout(total=timeout))
CommandTimeout == ClientTimeout(CommandTimeoutSeconds)

NoRequest == [sent |-> FALSE, timeout |-> {}]

Request(timeout) == [sent |-> TRUE, timeout |-> timeout]

\* The commands a sub-query sends, one after the other, each awaited
\* whatever the outcome of the one before.
CommandCount(q) == Cardinality(CommandsOf(q))

LiveTask ==
  [pc |-> "created", get |-> NoRequest,
   left |-> [q \in SubQueries |-> 0],
   post |-> [q \in SubQueries |-> NoRequest],
   result |-> "unset", timedout |-> FALSE]

LiveCall ==
  [pc |-> "idle", answering |-> [d \in LiveAddresses |-> TRUE],
   tasks |-> [d \in LiveAddresses |-> LiveTask], published |-> FALSE]

InitLive ==
  /\ speaker_ips = <<>>
  /\ speakers = EmptyMap
  /\ data = "None"
  /\ entities = {}
  /\ cycle = IdleCycle
  /\ raised = FALSE
  /\ send = SendIdle
  /\ zone = ZoneIdle
  /\ call = LiveCall
  /\ scan = ScanIdle

\* The device answers the requests it gets now.
Answers(d) == call.answering[d]

\* The deadline of a request expires: asyncio.TimeoutError in the caller.
TimesOut(r) == r.sent /\ r.timeout # {}

\* A request ends: the device answers it or its timeout expires.
Ends(d, r) == r.sent /\ (Answers(d) \/ TimesOut(r))

\* _async_update_data is called: the tasks are created and gathered.
LiveStart ==
  /\ call.pc \in {"idle", "done"}
  /\ call' = [call EXCEPT !.pc = "gathering",
                          !.tasks = [d \in LiveAddresses |-> LiveTask],
                          !.published = FALSE]
  /\ UNCHANGED <<speaker_ips, speakers, data, entities, cycle, raised, send,
                 zone, scan>>

\* _update_speaker of d starts: get_speaker_info requests /status/zp.
LiveFetch(d) ==
  /\ call.pc = "gathering"
  /\ call.tasks[d].pc = "created"
  /\ call' = [call EXCEPT !.tasks[d].pc = "status",
                          !.tasks[d].get = Request(DescriptorTimeout)]
  /\ UNCHANGED <<speaker_ips, speakers, data, entities, cycle, raised, send,
                 zone, scan>>

\* The status request ends (answer, ClientError or timeout, all handled in
\* place): the device description is requested.
StatusEnds(d) ==
  /\ call.pc = "gathering"
  /\ call.tasks[d].pc = "status"
  /\ Ends(d, call.tasks[d].get)
  /\ call' = [call EXCEPT
                !.tasks[d].pc = "description",
                !.tasks[d].get = Request(DescriptorTimeout),
                !.tasks[d].timedout = @ \/ ~Answers(d)]
  /\ UNCHANGED <<speaker_ips, speakers, data, entities, cycle, raised, send,
                 zone, scan>>

\* The description request is answered with 200: get_speaker_info returns
\* the descriptor and the six sub-queries are gathered; each posts its
\* first command.
DescriptionAnswered(d) ==
  /\ call.pc = "gathering"
  /\ call.tasks[d].pc = "description"
  /\ Answers(d)
  /\ call' = [call EXCEPT
                !.tasks[d].pc = "subqueries",
                !.tasks[d].get = NoRequest,
                !.tasks[d].left = [q \in SubQueries |-> CommandCount(q)],
                !.tasks[d].post =
                   [q \in SubQueries |-> Request(CommandTimeout)]]
  /\ UNCHANGED <<speaker_ips, speakers, data, entities, cycle, raised, send,
                 zone, scan>>

\* The description request ends with another status, an error or its
\* timeout: get_speaker_info returns None and so does the task.
DescriptionFails(d) ==
  /\ call.pc = "gathering"
  /\ call.tasks[d].pc = "description"
  /\ Ends(d, call.tasks[d].get)
  /\ call' = [call EXCEPT
                !.tasks[d].pc = "returned",
                !.tasks[d].get = NoRequest,
                !.tasks[d].result = "None",
                !.tasks[d].timedout = @ \/ ~Answers(d)]
  /\ UNCHANGED <<speaker_ips, speakers, data, entities, cycle, raised, send,
                 zone, scan>>

\* The command sub-query q of d waits for ends (send_upnp_command returns a
\* pair in every case): the sub-query posts its next command, or returns
\* its dict; the task returns with the last sub-query.
CommandEnds(d, q) ==
  /\ call.pc = "gathering"
  /\ call.tasks[d].pc = "subqueries"
  /\ Ends(d, call.tasks[d].post[q])
  /\ LET left == [call.tasks[d].left EXCEPT ![q] = @ - 1]
         last == \A x \in SubQueries : left[x] = 0
     IN  call' = [call EXCEPT
                    !.tasks[d].left = left,
                    !.tasks[d].post[q] =
                       IF left[q] = 0 THEN NoRequest
                       ELSE Request(CommandTimeout),
                    !.tasks[d].pc = IF last THEN "returned" ELSE @,
                    !.tasks[d].result = IF last THEN "dict" ELSE @,
                    !.tasks[d].timedout = @ \/ ~Answers(d)]
  /\ UNCHANGED <<speaker_ips, speakers, data, entities, cycle, raised, send,
                 zone, scan>>

\* The gather returns: the merge loop, self._speakers = speakers_data,
\* return speakers_data; the framework publishes the map.
LiveGathered ==
  /\ call.pc = "gathering"
  /\ \A d \in LiveAddresses : call.tasks[d].pc = "returned"
  /\ call' = [call EXCEPT !.pc = "done", !.published = TRUE]
  /\ UNCHANGED <<speaker_ips, speakers, data, entities, cycle, raised, send,
                 zone, scan>>

\* The device stops or resumes answering.
DeviceToggles(d) ==
  /\ call' = [call EXCEPT !.answering[d] = ~@]
  /\ UNCHANGED <<speaker_ips, speakers, data, entities, cycle, raised, send,
                 zone, scan>>

NextLive ==
  \/ LiveStart
  \/ \E d \in LiveAddresses : LiveFetch(d)
  \/ \E d \in LiveAddresses : StatusEnds(d)
  \/ \E d \in LiveAddresses : DescriptionAnswered(d)
  \/ \E d \in LiveAddresses : DescriptionFails(d)
  \/ \E d \in LiveAddresses, q \in SubQueries : CommandEnds(d, q)
  \/ LiveGathered
  \/ \E d \in LiveAddresses : DeviceToggles(d)

SpecCycle == InitLive /\ [][NextLive]_vars

\* The event loop runs every coroutine that is ready, and every request
\* that can end does end: it is answered or its timeout expires.
FairLive ==
  /\ WF_vars(LiveGathered)
  /\ \A d \in LiveAddresses :
       /\ WF_vars(LiveFetch(d))
       /\ WF_vars(StatusEnds(d))
       /\ WF_vars(DescriptionAnswered(d) \/ DescriptionFails(d))
       /\ \A q \in SubQueries : WF_vars(CommandEnds(d, q))

SpecCycleLive == SpecCycle /\ FairLive

\* The requests of the cycle that wait for a device.
InFlightRequests ==
  {call.tasks[d].get : d \in LiveAddresses}
    \cup {call.tasks[d].post[q] : d \in LiveAddresses, q \in SubQueries}

\* A task that has started and not returned waits for a request.
WaitsForARequest(d) ==
  /\ call.tasks[d].pc \in {"status", "description"} => call.tasks[d].get.sent
  /\ call.tasks[d].pc = "subqueries" =>
       \E q \in SubQueries : call.tasks[d].post[q].sent

\* C39: every started poll cycle completes and publishes a snapshot map,
\* when every request is answered or runs into its timeout: every request
\* of the cycle in flight has a timeout, and a task that has not returned
\* waits for such a request and for nothing else.
C39_EveryCycleCompletes ==
  /\ [](\A r \in InFlightRequests : r.sent => r.timeout # {})
  /\ [](call.pc = "gathering" =>
          \A d \in LiveAddresses : WaitsForARequest(d))
  /\ (call.pc = "gathering") ~> (call.pc = "done" /\ call.published)

\* C39 witness: a cycle has completed and published the map although the
\* device had stopped answering while its sub-queries were running; the
\* requests it did not answer ended by their timeouts.
C39_Witness ==
  /\ call.pc = "done" /\ call.published
  /\ call.tasks[1].result = "dict"
  /\ call.tasks[1].timedout
  /\ ~call.answering[1]

====
